---- MODULE Spec2Model ----
(***************************************************************************)
(* A state-machine model of the trigger validator of src/src/trigger.rs.   *)
(*                                                                         *)
(* The validator is a recursive walk over a script block.  The model runs  *)
(* it as a stack machine: `stack` holds one frame per active call of       *)
(* validate_trigger_internal (or of match_trigger_fields / the `switch`    *)
(* and `weighted_calc_true_if` loops), `walk` is the position of the       *)
(* chain walker (validate_trigger_key_bv or validate_target_ok_this) in    *)
(* its loop over the dotted parts of a key or target, `sc` is the          *)
(* ScopeContext, and `last` records what the step just taken did: the      *)
(* diagnostics it pushed and the calls it made on the scope context, in    *)
(* order.  The script being validated is produced lazily: every step       *)
(* draws the next field (or the next part of a chain) from the bounded     *)
(* vocabulary below.                                                       *)
(***************************************************************************)
EXTENDS Integers, Sequences, FiniteSets, TLC

VARIABLES stack, sc, walk, last, entry

\* src/src/data/characters.rs: the fields of Characters, and what the last
\* call did.
VARIABLES config_only_born, characters, ch_last

\* src/src/events.rs: the locals `namespace` and `expecting` of
\* Events::handle_file, the field error_events, and what the last step did.
VARIABLES namespace, expecting, error_events, ev_last

\* src/src/dds.rs: the field dds_files and what the last call did.
VARIABLES dds_files, dds_last

\* src/src/datatype.rs: the call of validate_datatypes being run.
VARIABLES dt

characterVars == <<config_only_born, characters, ch_last>>
eventVars == <<namespace, expecting, error_events, ev_last>>
ddsVars == <<dds_files, dds_last>>

\* What the trigger validator leaves alone.
dataVars == <<characterVars, eventVars, ddsVars, dt>>

triggerVars == <<stack, sc, walk, last, entry>>

\* What each of the other parts of the program leaves alone.
otherThanCharacters == <<triggerVars, eventVars, ddsVars, dt>>
otherThanEvents == <<triggerVars, characterVars, ddsVars, dt>>
otherThanDds == <<triggerVars, characterVars, eventVars, dt>>
otherThanDatatypes == <<triggerVars, characterVars, eventVars, ddsVars>>

vars == <<stack, sc, walk, last, entry, dataVars>>

(***************************************************************************)
(* Bounds of the model.                                                    *)
(***************************************************************************)
\* The deepest nesting of blocks that is explored.
MaxDepth == 4
\* The longest dotted chain (number of parts) that is explored.
MaxParts == 2

(***************************************************************************)
(* Severities, tooltipped modes, comparators.                              *)
(***************************************************************************)
Severities == {"Advice", "Untidy", "Warning", "Error", "Fatal"}

SevRank(s) ==
    CASE s = "Advice" -> 0
      [] s = "Untidy" -> 1
      [] s = "Warning" -> 2
      [] s = "Error" -> 3
      [] s = "Fatal" -> 4

SevMin(a, b) == IF SevRank(a) <= SevRank(b) THEN a ELSE b

Tooltippeds == {"Yes", "FailuresOnly", "No"}

\* Comparator: Equals(Single) "=", Equals(Question) "?=", Equals(Double) "==",
\* NotEquals "!=", and one ordering comparator standing for < <= > >=.
Comparators == {"=", "?=", "==", "!=", "<"}

CmpIsEquals(cmp) == cmp \in {"=", "?=", "=="}

(***************************************************************************)
(* Diagnostics: key, severity, message, the token they point at, and       *)
(* whether they carry a second location.                                   *)
(***************************************************************************)
Diag(key, sev, msg, at, two) ==
    [key |-> key, sev |-> sev, msg |-> msg, at |-> at, two |-> two]

\* report::fatal / err / error / old_warn / warn_info / warn2 / advice_info
fatal(key, msg, at) == Diag(key, "Fatal", msg, at, FALSE)
err(key, msg, at) == Diag(key, "Error", msg, at, FALSE)
error(key, msg, at) == Diag(key, "Error", msg, at, FALSE)
old_warn(key, msg, at) == Diag(key, "Warning", msg, at, FALSE)
warn_info(key, msg, at) == Diag(key, "Warning", msg, at, FALSE)
warn2(key, msg, at) == Diag(key, "Warning", msg, at, TRUE)
advice_info(key, msg, at) == Diag(key, "Advice", msg, at, FALSE)

\* A report made through a Validator whose set_max_severity(max_sev) was called.
vd_report(key, sev, msg, at, max_sev) == Diag(key, SevMin(sev, max_sev), msg, at, FALSE)

(***************************************************************************)
(* Scope sets.                                                             *)
(***************************************************************************)
ScopeU == {"None", "Character", "Title", "Value", "Bool", "Flag"}
NoneS == {"None"}
AllS == ScopeU
CharacterS == {"Character"}
TitleS == {"Title"}
ValueS == {"Value"}
BoolS == {"Bool"}
FlagS == {"Flag"}
non_primitive == {"Character", "Title"}

intersects(a, b) == (a \cap b) # {}

(***************************************************************************)
(* Tokens.  `at` tells the tokens of the chain being walked ("here") from  *)
(* tokens met earlier in the script ("outer").                             *)
(***************************************************************************)
Tok(s, at) == [s |-> s, at |-> at]

(***************************************************************************)
(* The scope context: a stack of entries, the last one the current scope.  *)
(* mode is "scope" for the root and for a level opened by open_scope,      *)
(* "tentative" for an open builder and "final" for a finalized builder.    *)
(***************************************************************************)
Entry(scopes, reason, mode) == [scopes |-> scopes, reason |-> reason, mode |-> mode]

Top(s) == s[Len(s)]

Pop(s) == SubSeq(s, 1, Len(s) - 1)

SetTop(s, e) == [s EXCEPT ![Len(s)] = e]

sc_new(root, reason) == <<Entry(root, reason, "scope")>>

sc_scopes(s) == Top(s).scopes

sc_scopes_reason(s) == <<Top(s).scopes, Top(s).reason>>

sc_can_be(s, set) == intersects(Top(s).scopes, set)

sc_must_be(s, set) == Top(s).scopes = set

sc_open_scope(s, set, tok) == Append(s, Entry(set, tok, "scope"))

sc_open_builder(s) == Append(s, Entry(Top(s).scopes, Top(s).reason, "tentative"))

sc_finalize_builder(s) == SetTop(s, [Top(s) EXCEPT !.mode = "final"])

sc_close(s) == Pop(s)

sc_replace(s, set, tok) == SetTop(s, Entry(set, tok, Top(s).mode))

\* The entry the chain started from: the one below the builder.
ThisEntry(s) == IF Len(s) >= 2 THEN s[Len(s) - 1] ELSE s[1]

PrevEntry(s) == IF Len(s) >= 3 THEN s[Len(s) - 2] ELSE s[1]

sc_replace_this(s) == sc_replace(s, ThisEntry(s).scopes, ThisEntry(s).reason)

sc_replace_prev(s) == sc_replace(s, PrevEntry(s).scopes, PrevEntry(s).reason)

sc_replace_root(s) == sc_replace(s, s[1].scopes, s[1].reason)

\* The named scope `x`, saved earlier in the script as a character.
NamedReason == Tok("save_scope_as", "outer")

sc_replace_named_scope(s, name, tok) == sc_replace(s, CharacterS, NamedReason)

\* expect: a no-op for Scopes::None, else narrow the current scope set.
sc_expect(s, set, tok) ==
    IF set = NoneS THEN s
    ELSE LET new == Top(s).scopes \cap set
             why == IF new # Top(s).scopes /\ new # {} THEN tok ELSE Top(s).reason
         IN  SetTop(s, Entry(new, why, Top(s).mode))

sc_expect_diags(s, set, tok) ==
    IF set # NoneS /\ ~intersects(Top(s).scopes, set)
    THEN <<warn2("Scopes", "scope was set here, but another is expected", tok.s)>>
    ELSE <<>>

\* The tokens of a finished chain are tokens met earlier for what follows.
Outer(s) == SetTop(s, [Top(s) EXCEPT !.reason = Tok(@.s, "outer")])

(***************************************************************************)
(* The record of a call: its name and the state of the builder (the mode   *)
(* of the current entry of the scope context) at the moment it is made.    *)
(***************************************************************************)
Op(name, s) == [op |-> name, mode |-> Top(s).mode]

(***************************************************************************)
(* The descriptor tables (data of the game, a small vocabulary of it).     *)
(***************************************************************************)
\* A part with a `:` and its prefix.
PrefixParts == {"scope:x", "character:bob", "cp:councillor_marshal", "event_id:e.1", "bogus:z"}

part_prefix(part) ==
    CASE part = "scope:x" -> "scope"
      [] part = "character:bob" -> "character"
      [] part = "cp:councillor_marshal" -> "cp"
      [] part = "event_id:e.1" -> "event_id"
      [] part = "bogus:z" -> "bogus"
      [] OTHER -> ""

\* scopes::scope_prefix: prefix -> (inscopes, outscope)
has_scope_prefix(prefix) == prefix \in {"scope", "character", "cp", "event_id"}

scope_prefix(prefix) ==
    CASE prefix = "scope" -> <<NoneS, AllS>>
      [] prefix = "character" -> <<NoneS, CharacterS>>
      [] prefix = "cp" -> <<CharacterS, CharacterS>>
      [] prefix = "event_id" -> <<NoneS, FlagS>>

\* scopes::scope_to_scope: name -> (inscopes, outscope)
ScopeToScopeNames == {"liege", "primary_title", "yes", "no"}

scope_to_scope(part) ==
    CASE part = "liege" -> <<CharacterS, CharacterS>>
      [] part = "primary_title" -> <<CharacterS, TitleS>>
      [] part = "yes" -> <<NoneS, BoolS>>
      [] part = "no" -> <<NoneS, BoolS>>

\* data.script_values.exists: `primary_title` is also the name of a scripted value
ScriptValueNames == {"my_value", "primary_title"}

\* scopes::scope_iterator: name -> (inscopes, outscope)
IteratorNames == {"vassal"}

scope_iterator(name) == <<CharacterS, CharacterS>>

\* A trigger descriptor: the Trigger variant and its scope argument, if any.
Trig(kind, s) == [kind |-> kind, s |-> s]

ControlNames ==
    {"and", "or", "not", "nor", "nand", "all_false", "trigger_if", "trigger_else",
     "custom_description", "modifier", "calc_true_if"}

SpecialNames ==
    {"exists", "custom_tooltip", "save_temporary_scope_as", "add_to_temporary_list",
     "is_in_list", "switch", "weighted_calc_true_if"}

CharacterTriggers ==
    {"is_adult", "age", "gold", "is_vassal_of", "target_is_liege_or_above", "has_trait",
     "has_relation_flag", "has_character_flag"}

TriggerNames == ControlNames \cup SpecialNames \cup CharacterTriggers \cup {"current_date", "current_year"}

\* tables::triggers::scope_trigger: name -> (inscopes, Trigger)
scope_trigger(part) ==
    CASE part \in ControlNames -> <<NoneS, Trig("Control", {})>>
      [] part \in SpecialNames -> <<NoneS, Trig("Special", {})>>
      [] part = "is_adult" -> <<CharacterS, Trig("Boolean", {})>>
      [] part = "age" -> <<CharacterS, Trig("CompareValue", {})>>
      [] part = "gold" -> <<CharacterS, Trig("CompareValueWarnEq", {})>>
      [] part = "is_vassal_of" -> <<CharacterS, Trig("Scope", CharacterS)>>
      [] part = "target_is_liege_or_above" -> <<CharacterS, Trig("ScopeOkThis", CharacterS)>>
      [] part = "has_trait" -> <<CharacterS, Trig("Item", {})>>
      [] part = "has_relation_flag" -> <<CharacterS, Trig("Block", {})>>
      [] part = "has_character_flag" -> <<CharacterS, Trig("UncheckedValue", {})>>
      [] part = "current_date" -> <<NoneS, Trig("CompareDate", {})>>
      [] part = "current_year" -> <<NoneS, Trig("CompareValue", {})>>

\* The fields of the Block descriptor of `has_relation_flag`.
BlockFields == {"target", "relation", "flag"}

block_field_trigger(field) ==
    CASE field = "target" -> Trig("Scope", CharacterS)
      [] field = "relation" -> Trig("Item", {})
      [] field = "flag" -> Trig("UncheckedValue", {})

\* data.get_trigger: the scripted triggers and their macro parameters
ScriptedTriggerNames == {"my_trigger", "my_macro"}

macro_parms(name) == IF name = "my_macro" THEN <<"A", "B">> ELSE <<>>

\* tables::triggers::scope_trigger_special_value: as the last part of a chain,
\* written `squared_distance(arg)`, it gives special_value_inscopes.
SpecialValueNames == {"squared_distance"}

Svi(part, islast) == IF islast /\ part \in SpecialValueNames THEN {CharacterS} ELSE {}

\* Every part a chain can be made of.
Parts ==
    PrefixParts \cup {"root", "prev", "this"} \cup ScopeToScopeNames \cup ScriptValueNames
        \cup TriggerNames \cup SpecialValueNames \cup {"wibble"}

SeqToSet(q) == {q[i] : i \in 1..Len(q)}

(***************************************************************************)
(* The chain walkers, one loop iteration at a time.  The result of an      *)
(* iteration: the scope context, the diagnostics and the calls it made,    *)
(* the trigger descriptor it found ("" when none), whether the function    *)
(* returned from inside the loop (exit) and whether the loop was left      *)
(* with `break` (brk).                                                     *)
(***************************************************************************)
R(s, diags, ops, found, exit, brk) ==
    [sc |-> s, diags |-> diags, ops |-> ops, found |-> found, exit |-> exit, brk |-> brk]

FirstPartWarningNever(inscopes, first, part, what) == <<>>

\* trigger.rs 363-366, 407-410, 426-429: a part that needs no scope, not first
FirstPartWarning(inscopes, first, part, what) ==
    IF inscopes = NoneS /\ ~first
    THEN <<old_warn("Validation", what, part)>>
    ELSE <<>>

\* trigger.rs 358-386: a part `prefix:arg` of a trigger key
KeyPrefixPart(s, part, first, islast, cmp) ==
    LET prefix == part_prefix(part) IN
    IF has_scope_prefix(prefix)
    THEN LET io == scope_prefix(prefix)
             s1 == sc_expect(s, io[1], Tok(prefix, "here"))
             s2 == IF prefix = "scope"
                   THEN sc_replace_named_scope(s1, "x", Tok(part, "here"))
                   ELSE sc_replace(s1, io[2], Tok(part, "here"))
         IN  R(s2,
               FirstPartWarning(io[1], first, part, "makes no sense except as first part")
                   \o sc_expect_diags(s, io[1], Tok(prefix, "here")),
               <<Op("expect", s), Op("validate_prefix_reference", s1)>>
                   \o (IF prefix = "scope" /\ islast /\ cmp = "?="
                       THEN <<Op("exists_scope", s1)>> ELSE <<>>)
                   \o <<Op(IF prefix = "scope" THEN "replace_named_scope" ELSE "replace", s1)>>,
               "", FALSE, prefix = "event_id")
    ELSE R(sc_close(s), <<error("Validation", "unknown prefix", part)>>,
           <<Op("close", s)>>, "", TRUE, FALSE)

\* trigger.rs 387-401 and 1014-1028: root, prev, this
RootPrevThisPart(s, part, first) ==
    R(CASE part = "root" -> sc_replace_root(s)
        [] part = "prev" -> sc_replace_prev(s)
        [] OTHER -> sc_replace_this(s),
      IF ~first THEN <<old_warn("Validation", "makes no sense except as first part", part)>>
      ELSE <<>>,
      <<Op(CASE part = "root" -> "replace_root"
             [] part = "prev" -> "replace_prev"
             [] OTHER -> "replace_this", s)>>,
      "", FALSE, FALSE)

\* trigger.rs 402-405 and 1036-1038: the call of a scripted value
ScriptValuePart(s, part) ==
    R(sc_replace(s, ValueS, Tok(part, "here")), <<>>,
      <<Op("script_values.validate_call", s), Op("replace", s)>>, "", FALSE, FALSE)

\* trigger.rs 406-412 and 1029-1035: a scope-to-scope transition
ScopeToScopePart(s, part, first) ==
    LET io == scope_to_scope(part)
        s1 == sc_expect(s, io[1], Tok(part, "here"))
    IN  R(sc_replace(s1, io[2], Tok(part, "here")),
          FirstPartWarning(io[1], first, part, "makes no sense except as first part")
              \o sc_expect_diags(s, io[1], Tok(part, "here")),
          <<Op("expect", s), Op("replace", s1)>>, "", FALSE, FALSE)

\* trigger.rs 418-439: a trigger descriptor in a trigger key
KeyTriggerPart(s, part, first, islast) ==
    LET inscopes == scope_trigger(part)[1] IN
    IF ~islast
    THEN R(sc_close(s), <<old_warn("Validation", "should be the last part", part)>>,
           <<Op("close", s)>>, "", TRUE, FALSE)
    ELSE IF part = "current_year" /\ sc_scopes(s) = NoneS
    THEN R(s,
           FirstPartWarning(inscopes, first, part, "makes no sense except as only part")
               \o <<warn_info("Bugs", "current_year does not work in empty scope", part)>>,
           <<>>, part, FALSE, FALSE)
    ELSE R(sc_expect(s, inscopes, Tok(part, "here")),
           FirstPartWarning(inscopes, first, part, "makes no sense except as only part")
               \o sc_expect_diags(s, inscopes, Tok(part, "here")),
           <<Op("expect", s)>>, part, FALSE, FALSE)

UnknownTokenUnreported(s, part) ==
    R(sc_close(s), <<>>, <<Op("close", s)>>, "", TRUE, FALSE)

UnknownTokenLeaksBuilder(s, part) ==
    R(s, <<error("UnknownField", "unknown token", part)>>, <<>>, "", TRUE, FALSE)

\* trigger.rs 440-446: a part that is nothing known
UnknownToken(s, part) ==
    R(sc_close(s), <<error("UnknownField", "unknown token", part)>>,
      <<Op("close", s)>>, "", TRUE, FALSE)

\* trigger.rs 353-447: one iteration of the loop of validate_trigger_key_bv.
\* svi is special_value_inscopes: {} for None, {set} for Some(set).
KeyPart(s, part, first, islast, cmp, svi) ==
    IF part \in PrefixParts THEN KeyPrefixPart(s, part, first, islast, cmp)
    ELSE IF part \in {"root", "prev", "this"} THEN RootPrevThisPart(s, part, first)
    ELSE IF part \in ScriptValueNames THEN ScriptValuePart(s, part)
    ELSE IF part \in ScopeToScopeNames THEN ScopeToScopePart(s, part, first)
    ELSE IF islast /\ svi # {}
    THEN LET inscopes == CHOOSE x \in svi : TRUE IN
         R(sc_expect(s, inscopes, Tok(part, "here")),
           sc_expect_diags(s, inscopes, Tok(part, "here")),
           <<Op("expect", s)>>, "special_value", FALSE, FALSE)
    ELSE IF part \in TriggerNames THEN KeyTriggerPart(s, part, first, islast)
    ELSE UnknownToken(s, part)

\* trigger.rs 989-1013: a part `prefix:arg` of a target
TargetPrefixPart(s, part, first) ==
    LET prefix == part_prefix(part) IN
    IF has_scope_prefix(prefix)
    THEN LET io == scope_prefix(prefix)
             s1 == sc_expect(s, io[1], Tok(prefix, "here"))
             s2 == IF prefix = "scope"
                   THEN sc_replace_named_scope(s1, "x", Tok(part, "here"))
                   ELSE sc_replace(s1, io[2], Tok(part, "here"))
         IN  R(s2,
               FirstPartWarning(io[1], first, part, "makes no sense except as first part")
                   \o sc_expect_diags(s, io[1], Tok(prefix, "here")),
               <<Op("expect", s), Op("validate_prefix_reference", s1),
                 Op(IF prefix = "scope" THEN "replace_named_scope" ELSE "replace", s1)>>,
               "", FALSE, prefix = "event_id")
    ELSE R(sc_close(s), <<error("Validation", "unknown prefix", part)>>,
           <<Op("close", s)>>, "", TRUE, FALSE)

\* trigger.rs 1243-1271: a trigger usable at the end of a chain on the right-hand side
trigger_comparevalue(part) ==
    IF part \in TriggerNames
          /\ scope_trigger(part)[2].kind \in
                {"CompareValue", "CompareValueWarnEq", "CompareDate", "SetValue",
                 "CompareValueOrBlock"}
    THEN {scope_trigger(part)[1]}
    ELSE {}

\* trigger.rs 1044-1065: a compare-value trigger at the end of a target
TargetTriggerPart(s, part, first, islast) ==
    LET inscopes == CHOOSE x \in trigger_comparevalue(part) : TRUE IN
    IF ~islast
    THEN R(sc_close(s), <<old_warn("Scopes", "only makes sense as the last part", part)>>,
           <<Op("close", s)>>, "", TRUE, FALSE)
    ELSE IF part = "current_year" /\ sc_scopes(s) = NoneS
    THEN R(sc_replace(s, ValueS, Tok(part, "here")),
           FirstPartWarning(inscopes, first, part, "makes no sense except as first part")
               \o <<warn_info("Bugs", "current_year does not work in empty scope", part)>>,
           <<Op("replace", s)>>, "", FALSE, FALSE)
    ELSE LET s1 == sc_expect(s, inscopes, Tok(part, "here")) IN
         R(sc_replace(s1, ValueS, Tok(part, "here")),
           FirstPartWarning(inscopes, first, part, "makes no sense except as first part")
               \o sc_expect_diags(s, inscopes, Tok(part, "here")),
           <<Op("expect", s), Op("replace", s1)>>, "", FALSE, FALSE)

\* trigger.rs 984-1083: one iteration of the loop of validate_target_ok_this
TargetPart(s, part, first, islast, svi) ==
    IF part \in PrefixParts THEN TargetPrefixPart(s, part, first)
    ELSE IF part \in {"root", "prev", "this"} THEN RootPrevThisPart(s, part, first)
    ELSE IF part \in ScopeToScopeNames THEN ScopeToScopePart(s, part, first)
    ELSE IF part \in ScriptValueNames THEN ScriptValuePart(s, part)
    ELSE IF islast /\ svi # {}
    THEN LET inscopes == CHOOSE x \in svi : TRUE
             s1 == sc_expect(s, inscopes, Tok(part, "here"))
         IN  R(sc_replace(s1, ValueS, Tok(part, "here")),
               sc_expect_diags(s, inscopes, Tok(part, "here")),
               <<Op("expect", s), Op("replace", s1)>>, "", FALSE, FALSE)
    ELSE IF trigger_comparevalue(part) # {} THEN TargetTriggerPart(s, part, first, islast)
    ELSE R(sc_close(s), <<err("UnknownField", "unknown token", part)>>,
           <<Op("close", s)>>, "", TRUE, FALSE)

TargetFinalCheckSkipped(s, part, outscopes) == <<>>

\* trigger.rs 1084-1095: the check of the final scope set, then close
TargetFinalCheck(s, part, outscopes) ==
    LET final_scopes == sc_scopes_reason(s)[1]
        because == sc_scopes_reason(s)[2]
        ptok == Tok(part, "here")
    IN  IF ~intersects(outscopes, final_scopes \cup NoneS)
        THEN IF ptok.s = because.s /\ ptok.at = because.at
             THEN <<old_warn("Scopes", "produces but expected", part)>>
             ELSE <<warn2("Scopes", "produces but expected", part)>>
        ELSE <<>>

(***************************************************************************)
(* Frames.  A frame is an active call that walks a block:                  *)
(*   kind "trigger": validate_trigger_internal                             *)
(*   kind "fields":  match_trigger_fields (a Block descriptor)             *)
(*   kind "switch":  the unknown_block_fields loop of `switch`             *)
(*   kind "wcti":    the integer_blocks loop of `weighted_calc_true_if`    *)
(* via says which statement made the call; close, tail and ors say what    *)
(* the caller does when the call returns: sc.close(), the comparator       *)
(* warnings of match_trigger_bv, and `side_effects |=` on the result.      *)
(***************************************************************************)
Frame(kind, via, caller, in_list, tooltipped, negated, max_sev, close, tail, ors) ==
    [kind |-> kind, via |-> via, caller |-> caller, in_list |-> in_list,
     tooltipped |-> tooltipped, negated |-> negated, max_sev |-> max_sev,
     side |-> FALSE, count |-> 0, close |-> close, tail |-> tail, ors |-> ors]

NoFrame == Frame("none", "", "", FALSE, "No", FALSE, "Error", FALSE, <<>>, FALSE)

\* trigger.rs 42-58: validate_trigger calls validate_trigger_internal with these
ValidateTriggerFrame(via, tooltipped) ==
    Frame("trigger", via, "", FALSE, tooltipped, FALSE, "Error", FALSE, <<>>, TRUE)

\* trigger.rs 64-81: validate_trigger_max_sev
ValidateTriggerMaxSevFrame(via, tooltipped, max_sev) ==
    Frame("trigger", via, "", FALSE, tooltipped, FALSE, max_sev, FALSE, <<>>, TRUE)

\* trigger.rs 112-129: the tooltip warning at the start of validate_trigger_internal
TooltipWarning(caller, tooltipped, negated) ==
    IF tooltipped = "FailuresOnly"
          /\ ((negated /\ caller \in {"and", "nand"})
              \/ (~negated /\ caller \in {"or", "nor", "all_false"}))
    THEN <<warn_info("Tooltip", "is a too complex trigger to be tooltipped", caller)>>
    ELSE <<>>

(***************************************************************************)
(* The walker between two parts of a chain.  fn is "idle", "key"           *)
(* (validate_trigger_key_bv) or "target" (validate_target_ok_this); parts  *)
(* are the parts done so far.  A target walk carries the scopes expected   *)
(* (outscopes), whether validate_target made the call (warn_this), the     *)
(* forced single part of a literal token (lit) and the warnings its caller *)
(* pushes after it (tail).  then is "switch_branch" for the key walk made  *)
(* for a branch of `switch`.                                               *)
(***************************************************************************)
Walk(fn, parts, outscopes, warn_this, lit, tail, then) ==
    [fn |-> fn, parts |-> parts, outscopes |-> outscopes,
     warn_this |-> warn_this, lit |-> lit, tail |-> tail, then |-> then]

Idle == Walk("idle", <<>>, {}, FALSE, "", <<>>, "")

(***************************************************************************)
(* The outcome of a handler: the scope context, the diagnostics and calls  *)
(* made, the side-effect result, and how it goes on: "leaf" (done),        *)
(* "target" (a call of validate_target or validate_target_ok_this, in tw)  *)
(* or "push" (a call that walks a block, in frame).                        *)
(***************************************************************************)
O(s, diags, ops, side, next, tw, frame) ==
    [sc |-> s, diags |-> diags, ops |-> ops, side |-> side, next |-> next,
     tw |-> tw, frame |-> frame]

Leaf(s, diags, ops, side) == O(s, diags, ops, side, "leaf", Idle, NoFrame)

Push(s, diags, ops, frame) == O(s, diags, ops, FALSE, "push", Idle, frame)

\* block.rs: bv.expect_value() on a block, bv.expect_block() on a value
ExpectValueDiag(name) == <<error("Validation", "expected value, found block", name)>>
ExpectBlockDiag(name) == <<error("Validation", "expected block, found value", name)>>

\* trigger.rs 974-983 and 1098-1106: a call of validate_target_ok_this (warn_this
\* FALSE) or validate_target (warn_this TRUE) on a value token of class val
TargetCall(s, diags, ops, val, outscopes, warn_this, tail) ==
    IF val = "number"
    THEN Leaf(s,
              diags
                  \o (IF ~intersects(outscopes, ValueS \cup NoneS)
                      THEN <<old_warn("Scopes", "expected scopes", "number")>> ELSE <<>>)
                  \o tail,
              ops \o <<Op("validate_target_ok_this", s)>>, FALSE)
    ELSE O(s, diags, ops \o <<Op("validate_target_ok_this", s)>>, FALSE, "target",
           Walk("target", <<>>, outscopes, warn_this,
                IF val = "chain" THEN "" ELSE val, tail, ""),
           NoFrame)

CmpTailAlsoLogic(cmp, must_be_eq, warn_if_eq, name) ==
    (IF CmpIsEquals(cmp) /\ warn_if_eq
     THEN <<old_warn("Logic", "means exactly equal to that amount", name)>> ELSE <<>>)
        \o (IF cmp # "=" /\ (must_be_eq \/ warn_if_eq)
            THEN <<old_warn("Validation", "unexpected comparator", name)>> ELSE <<>>)

\* trigger.rs 951-959: the comparator check at the end of match_trigger_bv
CmpTail(cmp, must_be_eq, warn_if_eq, name) ==
    IF CmpIsEquals(cmp)
    THEN IF warn_if_eq
         THEN <<old_warn("Logic", "means exactly equal to that amount", name)>>
         ELSE <<>>
    ELSE IF must_be_eq
         THEN <<old_warn("Validation", "unexpected comparator", name)>>
         ELSE <<>>

ControlNegatedUnchanged(name, negated) == negated

\* trigger.rs 765-773: the keywords that negate their block
ControlNegated(name, negated) ==
    IF name \in {"all_false", "not", "nand", "nor"} THEN ~negated ELSE negated

\* trigger.rs 774-777: custom_description is never tooltipped
ControlTooltipped(name, tooltipped) ==
    IF name = "custom_description" THEN "No" ELSE tooltipped

\* trigger.rs 763-789: Trigger::Control.  The value "empty" is a block with no
\* fields: validate_trigger_internal is called and returns at once.
MatchControl(s, name, cmp, val, f) ==
    IF val = "block"
    THEN Push(s, TooltipWarning(name, ControlTooltipped(name, f.tooltipped),
                                ControlNegated(name, f.negated)),
              <<Op("validate_trigger_internal", s)>>,
              Frame("trigger", "control", name, FALSE,
                    ControlTooltipped(name, f.tooltipped),
                    ControlNegated(name, f.negated),
                    f.max_sev, FALSE, CmpTail(cmp, TRUE, FALSE, name), TRUE))
    ELSE IF val = "empty"
    THEN Leaf(s,
              TooltipWarning(name, ControlTooltipped(name, f.tooltipped),
                             ControlNegated(name, f.negated))
                  \o CmpTail(cmp, TRUE, FALSE, name),
              <<Op("validate_trigger_internal", s)>>, FALSE)
    ELSE Leaf(s, ExpectBlockDiag(name) \o CmpTail(cmp, TRUE, FALSE, name), <<>>, FALSE)

ExistsScopeAlways(s, negated) == <<Op("exists_scope", s)>>

\* trigger.rs 800-805: exists = scope:name tells that the scope name was set
ExistsScope(s, negated) == IF ~negated THEN <<Op("exists_scope", s)>> ELSE <<>>

\* trigger.rs 790-940: Trigger::Special
MatchSpecial(s, name, cmp, val, f) ==
    LET tail == CmpTail(cmp, TRUE, FALSE, name) IN
    CASE name = "exists" ->
           IF val = "block" THEN Leaf(s, ExpectValueDiag(name) \o tail, <<>>, FALSE)
           ELSE IF val \in {"yes", "no"}
           THEN Leaf(s,
                     (IF sc_must_be(s, NoneS)
                      THEN <<old_warn("Scopes", "exists does nothing in None scope", val)>>
                      ELSE <<>>) \o tail,
                     <<>>, FALSE)
           ELSE IF val = "scope:x"
           THEN Leaf(s, tail, ExistsScope(s, f.negated), FALSE)
           ELSE IF val = "flag:f" THEN Leaf(s, tail, <<>>, FALSE)
           ELSE TargetCall(s, <<>>, <<>>, val, non_primitive, FALSE, tail)
      [] name = "custom_tooltip" ->
           IF val = "block"
           THEN Push(s, TooltipWarning(name, "No", f.negated),
                     <<Op("validate_trigger_internal", s)>>,
                     Frame("trigger", "custom_tooltip", name, FALSE, "No", f.negated,
                           f.max_sev, FALSE, tail, TRUE))
           ELSE Leaf(s, tail, <<Op("verify_exists_max_sev", s)>>, FALSE)
      [] name = "save_temporary_scope_as" ->
           IF val = "block" THEN Leaf(s, ExpectValueDiag(name) \o tail, <<>>, FALSE)
           ELSE Leaf(s, tail, <<Op("save_current_scope", s)>>, TRUE)
      [] name = "add_to_temporary_list" ->
           IF val = "block" THEN Leaf(s, ExpectValueDiag(name) \o tail, <<>>, FALSE)
           ELSE Leaf(s, tail, <<Op("define_or_expect_list", s)>>, TRUE)
      [] name = "is_in_list" ->
           IF val = "block" THEN Leaf(s, ExpectValueDiag(name) \o tail, <<>>, FALSE)
           ELSE Leaf(s, tail, <<Op("expect_list", s)>>, FALSE)
      [] name = "switch" ->
           IF val = "block"
           THEN Push(s, <<>>, <<>>,
                     Frame("switch", "switch", name, FALSE, f.tooltipped, f.negated,
                           f.max_sev, FALSE, tail, TRUE))
           ELSE Leaf(s, ExpectBlockDiag(name) \o tail, <<>>, FALSE)
      [] name = "weighted_calc_true_if" ->
           IF val = "block"
           THEN Push(s, <<>>, <<>>,
                     Frame("wcti", "weighted_calc_true_if", name, FALSE, f.tooltipped,
                           f.negated, f.max_sev, FALSE, tail, TRUE))
           ELSE Leaf(s, ExpectBlockDiag(name) \o tail, <<>>, FALSE)

\* trigger.rs 566-961: match_trigger_bv
match_trigger_bv(s, trig, name, cmp, val, f) ==
    CASE trig.kind = "Boolean" ->
           IF val = "block"
           THEN Leaf(s, ExpectValueDiag(name) \o CmpTail(cmp, TRUE, FALSE, name), <<>>, FALSE)
           ELSE TargetCall(s, <<>>, <<>>, val, BoolS, TRUE, CmpTail(cmp, TRUE, FALSE, name))
      [] trig.kind = "CompareValue" ->
           Leaf(s, CmpTail(cmp, FALSE, FALSE, name), <<Op("validate_script_value", s)>>, FALSE)
      [] trig.kind = "CompareValueWarnEq" ->
           Leaf(s, CmpTail(cmp, FALSE, TRUE, name), <<Op("validate_script_value", s)>>, FALSE)
      [] trig.kind = "CompareDate" ->
           Leaf(s,
                (IF val = "block" THEN ExpectValueDiag(name)
                 ELSE IF val # "date"
                 THEN <<old_warn("Validation", "expects a date value", name)>>
                 ELSE <<>>) \o CmpTail(cmp, FALSE, FALSE, name),
                <<>>, FALSE)
      [] trig.kind \in {"Scope", "ScopeOkThis"} ->
           IF val # "block"
           THEN TargetCall(s, <<>>, <<>>, val, trig.s, trig.kind = "Scope",
                           CmpTail(cmp, TRUE, FALSE, name))
           ELSE IF ValueS \subseteq trig.s
           THEN Leaf(s, CmpTail(cmp, TRUE, FALSE, name),
                     <<Op("validate_script_value", s)>>, FALSE)
           ELSE Leaf(s, ExpectValueDiag(name) \o CmpTail(cmp, TRUE, FALSE, name), <<>>, FALSE)
      [] trig.kind = "Item" ->
           IF val = "block"
           THEN Leaf(s, ExpectValueDiag(name) \o CmpTail(cmp, TRUE, FALSE, name), <<>>, FALSE)
           ELSE Leaf(s, CmpTail(cmp, TRUE, FALSE, name),
                     <<Op("verify_exists_max_sev", s)>>, FALSE)
      [] trig.kind = "Block" ->
           IF val = "block"
           THEN Push(s, <<>>, <<Op("match_trigger_fields", s)>>,
                     Frame("fields", "fields", name, FALSE, f.tooltipped, f.negated,
                           f.max_sev, FALSE, CmpTail(cmp, TRUE, FALSE, name), TRUE))
           ELSE Leaf(s, ExpectBlockDiag(name) \o CmpTail(cmp, TRUE, FALSE, name), <<>>, FALSE)
      [] trig.kind = "Control" -> MatchControl(s, name, cmp, val, f)
      [] trig.kind = "Special" -> MatchSpecial(s, name, cmp, val, f)
      [] trig.kind = "UncheckedValue" ->
           Leaf(s,
                (IF val = "block" THEN ExpectValueDiag(name) ELSE <<>>)
                    \o CmpTail(cmp, TRUE, FALSE, name),
                <<>>, TRUE)

KeyComparisonNeverTarget(s, key, cmp, val) ==
    IF sc_can_be(s, ValueS)
    THEN Leaf(sc_close(s), <<>>,
              <<Op("close", s), Op("validate_script_value", sc_close(s))>>, FALSE)
    ELSE Leaf(sc_close(s), <<old_warn("Validation", "unexpected comparator", key)>>,
              <<Op("close", s)>>, FALSE)

\* trigger.rs 456-473: a key that is a scope chain, with a comparator other
\* than `=` and `?=`
KeyComparison(s, key, cmp, val) ==
    IF sc_can_be(s, ValueS)
    THEN Leaf(sc_close(s), <<>>,
              <<Op("close", s), Op("validate_script_value", sc_close(s))>>, FALSE)
    ELSE IF cmp \in {"!=", "=="}
    THEN IF val = "block"
         THEN Leaf(sc_close(s), ExpectValueDiag(key), <<Op("close", s)>>, FALSE)
         ELSE TargetCall(sc_close(s), <<>>, <<Op("close", s)>>, val, sc_scopes(s),
                         FALSE, <<>>)
    ELSE Leaf(sc_close(s), <<old_warn("Validation", "unexpected comparator", key)>>,
              <<Op("close", s)>>, FALSE)

\* trigger.rs 449-497: validate_trigger_key_bv after its loop.  found is the name
\* of the trigger descriptor found ("" when the chain ends in a scope).
KeyFinish(s, found, key, cmp, val, f) ==
    IF found # ""
    THEN LET o == match_trigger_bv(sc_close(s),
                                   IF found = "special_value" THEN Trig("CompareValue", {})
                                   ELSE scope_trigger(found)[2],
                                   key, cmp, val, f)
         IN  [o EXCEPT !.ops = <<Op("close", s)>> \o @]
    ELSE IF cmp \notin {"=", "?="} THEN KeyComparison(s, key, cmp, val)
    ELSE IF val = "block"
    THEN Push(Outer(sc_finalize_builder(s)), TooltipWarning("", f.tooltipped, f.negated),
              <<Op("finalize_builder", s),
                Op("validate_trigger_internal", sc_finalize_builder(s))>>,
              Frame("trigger", "chain_block", "", FALSE, f.tooltipped, f.negated,
                    f.max_sev, TRUE, <<>>, TRUE))
    ELSE TargetCall(sc_close(s), <<>>, <<Op("close", s)>>, val, sc_scopes(s), FALSE, <<>>)

(***************************************************************************)
(* The input vocabulary of a step.                                         *)
(***************************************************************************)
\* The script is explored in full breadth in the block given to the entry
\* point (depth 1) and with a smaller vocabulary in the blocks nested in it.
\* Whether the part after n parts is the last one of its chain, at depth d.
LastChoices(n, d) == IF n + 1 < MaxParts /\ d = 1 THEN BOOLEAN ELSE {TRUE}

\* The classes of a field's value are "block", "empty" (a block with no
\* fields), "number", "date", "chain" (a token walked part by part) and the
\* literal tokens "yes", "no", "scope:x" and "flag:f".

\* The triggers whose value is a block.
BlockTakers == ControlNames \cup {"custom_tooltip", "switch", "weighted_calc_true_if",
                                  "has_relation_flag"}

\* The parts tried at the start of a key, and after its first part.
DeepParts ==
    {"not", "or", "trigger_if", "custom_description", "switch", "exists",
     "save_temporary_scope_as", "liege", "wibble"}

DeeperParts == {"or", "exists", "save_temporary_scope_as", "liege", "wibble"}

DeepestParts == {"exists", "save_temporary_scope_as", "wibble", "or", "and"}

\* The scope chains tried with a block on the right-hand side.
BlockChainParts == {"liege", "scope:x", "primary_title", "my_value"}

LaterParts ==
    {"liege", "primary_title", "scope:x", "this", "my_value", "age", "is_adult", "wibble",
     "event_id:e.1", "squared_distance", "yes", "current_year"}

KeyParts(d, n) ==
    IF n > 0 THEN LaterParts
    ELSE IF d = 1 THEN Parts
    ELSE IF d = 2 THEN DeepParts
    ELSE IF d = 3 THEN DeeperParts
    ELSE DeepestParts

\* The parts tried at the start of a target, and after its first part.
TargetFirstParts ==
    PrefixParts \cup {"root", "prev", "this", "liege", "primary_title", "yes", "my_value",
                      "age", "is_adult", "squared_distance", "wibble"}

TargetLaterParts ==
    {"liege", "primary_title", "this", "age", "wibble", "yes", "scope:x", "current_year",
     "event_id:e.1"}

TargetParts(d, n) ==
    IF n > 0 THEN TargetLaterParts
    ELSE IF d = 1 THEN TargetFirstParts
    ELSE {"liege", "this", "scope:x", "wibble"}

\* The values tried on the right-hand side of a key ending in `found`
\* ("" when the key is a scope chain).
ValsFor(found, d) ==
    IF d = 1
    THEN CASE found = "exists" -> {"block", "yes", "scope:x", "flag:f", "number", "chain"}
           [] found = "current_date" -> {"block", "date", "number"}
           [] found = "is_adult" -> {"block", "yes", "chain"}
           [] found \in BlockTakers -> {"block", "number"}
           [] OTHER -> {"block", "number", "chain"}
    ELSE CASE found = "exists" -> {"scope:x", "chain"}
           [] found \in BlockTakers -> IF d <= 3 THEN {"block"} ELSE {"empty"}
           [] found = "" -> IF d = 2 THEN {"block", "chain"} ELSE {"chain"}
           [] OTHER -> {"number"}

\* The comparator and value tried after a key ending in `found`.
RhsFor(found, part, d) ==
    {<<"=", v>> : v \in ValsFor(found, d) \ (IF found = "" /\ part \notin BlockChainParts
                                              THEN {"block"} ELSE {})}
        \cup (IF d # 1 THEN {}
              ELSE IF found = "" THEN {<<"?=", "chain">>, <<"!=", "chain">>, <<"==", "block">>,
                                       <<"==", "chain">>, <<"<", "number">>}
              ELSE IF found = "and" THEN {<<"!=", "block">>}
              ELSE IF found \in BlockTakers THEN {<<"!=", "number">>}
              ELSE {<<"?=", "number">>, <<"==", "number">>, <<"!=", "number">>,
                    <<"<", "number">>})

\* The value tried as the key of a branch of `switch`.
SwitchRhsFor(found) == {<<"=", IF found = "exists" THEN "scope:x" ELSE "number">>}

\* The argument names tried in a macro call.
ArgNames == {"A", "B", "C", "D"}
ArgOrder == <<"A", "B", "C", "D">>

(***************************************************************************)
(* What a step leaves in `last`.                                           *)
(***************************************************************************)
NoInfo ==
    [neg |-> FALSE, outscopes |-> {}, final_scopes |-> {}, because |-> Tok("", ""),
     final |-> <<>>, args |-> {}, depth |-> 0, via |-> "", resolved |-> FALSE]

\* nxt tells how the machine goes on after the step: "leaf" (the field is
\* done), "push" (a block was entered), "walk" (a chain is being walked) or
\* "ready" (the loop over the fields is about to take the next field).
L(fn, part, first, islast, cmp, val, diags, ops, side, info) ==
    [fn |-> fn, part |-> part, first |-> first, islast |-> islast, cmp |-> cmp,
     val |-> val, diags |-> diags, ops |-> ops, side |-> side, info |-> info,
     nxt |-> "leaf"]

Ready == [L("next_field", "", FALSE, FALSE, "=", "", <<>>, <<>>, FALSE, NoInfo)
             EXCEPT !.nxt = "ready"]

InBlock(kind) ==
    /\ walk.fn = "idle"
    /\ stack # <<>>
    /\ Top(stack).kind = kind
    /\ last.nxt \in {"ready", "push"}

OrSide(st, b) == SetTop(st, [Top(st) EXCEPT !.side = @ \/ b])

SwitchBranchFrameAsEntered(f) == ValidateTriggerFrame("switch_branch", entry.tooltipped)

\* The branch of a `switch`: trigger.rs 914
SwitchBranchFrame(f) == ValidateTriggerFrame("switch_branch", f.tooltipped)

\* How a handler's outcome o moves the machine on.  ors: the caller ORs the
\* result into its side_effects; then: what follows a walk made for a `switch`.
Apply(o, lst, ors, then) ==
    /\ sc' = o.sc
    /\ last' = [lst EXCEPT !.nxt = IF o.next = "target" THEN "walk"
                                   ELSE IF o.next = "push" \/ then = "switch_branch"
                                   THEN "push" ELSE "leaf"]
    /\ CASE o.next = "push" ->
              /\ Len(stack) < MaxDepth
              /\ stack' = Append(stack, [o.frame EXCEPT !.ors = ors /\ @])
              /\ walk' = Idle
         [] o.next = "target" ->
              /\ stack' = stack
              /\ walk' = [o.tw EXCEPT !.then = then]
         [] OTHER ->
              /\ walk' = Idle
              /\ IF then = "switch_branch"
                 THEN stack' = Append(SetTop(stack, [Top(stack) EXCEPT !.count = 1]),
                                      SwitchBranchFrame(Top(stack)))
                 ELSE stack' = OrSide(stack, ors /\ o.side)
    /\ UNCHANGED <<entry, dataVars>>

(***************************************************************************)
(* src/src/data/characters.rs: the catalog of characters.                  *)
(*                                                                         *)
(* A token is its text and its location; a location is the overlay kind of *)
(* its file and a line.  A character's block is reduced to the fields the  *)
(* catalog reads: `female`, the date of `birth`, `father` and `mother`.    *)
(***************************************************************************)
\* The lines of the history files that are explored, per overlay kind.
MaxLine == 2

\* fileset::FileKind, in its order: a mod's files are above the game's.
FileKinds == <<"Vanilla", "Mod">>

KindRank(kind) == CHOOSE r \in 1..Len(FileKinds) : FileKinds[r] = kind

Locs == {[kind |-> FileKinds[r], line |-> n] : r \in 1..Len(FileKinds), n \in 1..MaxLine}

\* The order of token::Loc, as sort_unstable_by_key uses it.
LocBefore(a, b) ==
    \/ KindRank(a.kind) < KindRank(b.kind)
    \/ a.kind = b.kind /\ a.line < b.line

Token(s, loc) == [s |-> s, loc |-> loc]

NoToken == Token("", [kind |-> "", line |-> 0])

\* errors::error, errors::warn and helpers::dup_error: a report is its key,
\* its severity, its message, the token it points at and, for a duplicate,
\* the token of the other definition.
Report(key, sev, msg, at, other) ==
    [key |-> key, sev |-> sev, msg |-> msg, at |-> at, other |-> other]

CharKeys == {"bob", "carol"}

\* The characters that scripts refer to: `dave` is defined nowhere.
CharRefs == CharKeys \cup {"dave"}

\* Option<Date>
NoDate == [some |-> FALSE, date |-> 0]

SomeDate(d) == [some |-> TRUE, date |-> d]

\* The dates of birth that are explored, and the date of `only_born`.
BirthDates == {1, 2}

OnlyBornDates == {1}

CharBlock(female, birth, father, mother) ==
    [female |-> female, birth |-> birth, father |-> father, mother |-> mother]

\* The blocks of the characters that are explored.
CharBlocks ==
    {CharBlock("", 1, "", ""), CharBlock("yes", 1, "", ""), CharBlock("no", 2, "bob", ""),
     CharBlock("yes", 2, "", "bob"), CharBlock("", 2, "dave", "carol")}

\* characters.rs 139-142: Character::new
Character(key, block) == [key |-> key, block |-> block]

\* characters.rs 144-150: Character::born_by
born_by(ch, date) == IF date.some THEN ch.block.birth <= date.date ELSE TRUE

\* characters.rs 28-35: Gender::from_female_bool
from_female_bool(b) == IF b THEN "Female" ELSE "Male"

\* characters.rs 45-52 and 75: format!("character is not {}", gender)
NotGenderMsg(g) ==
    IF g = "Male" THEN "character is not male" ELSE "character is not female"

\* characters.rs 152-154: Character::gender; get_field_bool gives None without
\* the field, and unwrap_or(false) makes that male
gender(ch) == from_female_bool(ch.block.female = "yes")

GenderNeverChecked(chars, item, g) ==
    IF item.s \in DOMAIN chars THEN <<>>
    ELSE <<Report("MissingItem", "Error", "character not defined in history/characters/",
                  item, NoToken)>>

\* characters.rs 72-85: Characters::verify_exists_gender
verify_exists_gender(chars, item, g) ==
    IF item.s \in DOMAIN chars
    THEN IF g # gender(chars[item.s])
         THEN <<Report("WrongGender", "Error", NotGenderMsg(g), item, NoToken)>>
         ELSE <<>>
    ELSE <<Report("MissingItem", "Error", "character not defined in history/characters/",
                  item, NoToken)>>

DupAlsoFromLowerOverlay(chars, date, key) ==
    IF key.s \in DOMAIN chars /\ born_by(chars[key.s], date)
    THEN <<Report("DuplicateItem", "Warning", "character is redefined", key,
                  chars[key.s].key)>>
    ELSE <<>>

\* characters.rs 63-67: the duplicate report of Characters::load_item
DupReport(chars, date, key) ==
    IF key.s \in DOMAIN chars
          /\ KindRank(chars[key.s].key.loc.kind) >= KindRank(key.loc.kind)
          /\ born_by(chars[key.s], date)
    THEN <<Report("DuplicateItem", "Warning", "character is redefined", key,
                  chars[key.s].key)>>
    ELSE <<>>

\* characters.rs 68-69: FnvHashMap::insert puts the new definition in the old
\* one's place
Insert(chars, key, block) ==
    [k \in DOMAIN chars \cup {key.s} |->
        IF k = key.s THEN Character(key, block) ELSE chars[k]]

\* characters.rs 224-268: Character::validate, its calls on the catalog
CharacterValidate(chars, ch) ==
    (IF ch.block.father # ""
     THEN verify_exists_gender(chars, Token(ch.block.father, ch.key.loc), "Male")
     ELSE <<>>)
    \o (IF ch.block.mother # ""
        THEN verify_exists_gender(chars, Token(ch.block.mother, ch.key.loc), "Female")
        ELSE <<>>)

\* The orders in which a hash map can give the values of chars.
HashOrders(chars) ==
    {p \in [1..Cardinality(DOMAIN chars) -> DOMAIN chars] :
        \A i, j \in DOMAIN p : i # j => p[i] # p[j]}

AnyOrder(chars, vec) == HashOrders(chars)

\* characters.rs 93: sort_unstable_by_key(|item| &item.key.loc) can give any
\* order of vec in which no key location comes before an earlier one's
SortedOrders(chars, vec) ==
    {p \in HashOrders(chars) :
        \A i, j \in DOMAIN p : i < j => ~LocBefore(chars[p[j]].key.loc, chars[p[i]].key.loc)}

RECURSIVE ValidateAll(_, _, _)
\* characters.rs 94-98: the loop of Characters::validate over the sorted vec
ValidateAll(chars, date, vec) ==
    IF vec = <<>> THEN [visited |-> <<>>, reports |-> <<>>]
    ELSE LET rest == ValidateAll(chars, date, Tail(vec))
             ch == chars[Head(vec)]
         IN  IF born_by(ch, date)
             THEN [visited |-> <<ch.key>> \o rest.visited,
                   reports |-> CharacterValidate(chars, ch) \o rest.reports]
             ELSE rest

\* What the last call did: its reports; for validate the order the hash map
\* gave and the keys of the characters validated, in order; for load_item the
\* key of the definition that was in the catalog before, if any; for
\* verify_exists_gender the gender asked for.
ChLast(op, key, reports, hash, visited) ==
    [op |-> op, key |-> key, reports |-> reports, hash |-> hash, visited |-> visited]

\* characters.rs 54-59: #[derive(Default)]
CharactersInit ==
    /\ config_only_born = NoDate
    /\ characters = <<>>
    /\ ch_last = ChLast("new", NoToken, <<>>, <<>>, <<>>)

\* characters.rs 103-111: FileHandler::config, called before the files are
\* read.  `born` is the date of characters.only_born, when the configuration
\* has one that Date::try_from accepts.
Config ==
    /\ ch_last.op = "new"
    /\ \E born \in {NoDate} \cup {SomeDate(d) : d \in OnlyBornDates} :
          /\ config_only_born' = IF born.some THEN born ELSE config_only_born
          /\ ch_last' = ChLast("config", NoToken, <<>>, <<>>, <<>>)
    /\ UNCHANGED <<characters, otherThanCharacters>>

\* The locations of the keys of the definitions in the catalog.
KeyLocs(chars) == {chars[k].key.loc : k \in DOMAIN chars}

\* characters.rs 127-129 and 62-70: one definition of a history file is
\* given to load_item; no other definition has its key at the same location
LoadItem ==
    /\ \E s \in CharKeys, loc \in Locs \ KeyLocs(characters), block \in CharBlocks :
          LET key == Token(s, loc) IN
          /\ characters' = Insert(characters, key, block)
          /\ ch_last' = ChLast("load_item", key,
                               DupReport(characters, config_only_born, key), <<>>,
                               IF s \in DOMAIN characters THEN <<characters[s].key>>
                               ELSE <<>>)
    /\ UNCHANGED <<config_only_born, otherThanCharacters>>

\* characters.rs 196-212: validate_history asks for a spouse of a gender
VerifyExistsGender ==
    /\ \E s \in CharRefs, loc \in {l \in Locs : l.line = 1 /\ l.kind = "Mod"},
          g \in {"Male", "Female"} :
          ch_last' = ChLast("verify_exists_gender", Token(s, loc),
                            verify_exists_gender(characters, Token(s, loc), g),
                            <<>>, <<g>>)
    /\ UNCHANGED <<config_only_born, characters, otherThanCharacters>>

\* characters.rs 91-99: Characters::validate
Validate ==
    /\ \E vec \in HashOrders(characters) :
       \E sorted \in SortedOrders(characters, vec) :
          LET r == ValidateAll(characters, config_only_born, sorted) IN
          ch_last' = ChLast("validate", NoToken, r.reports, vec, r.visited)
    /\ UNCHANGED <<config_only_born, characters, otherThanCharacters>>

(***************************************************************************)
(* src/src/events.rs: Events::handle_file reads the items of an event      *)
(* file one by one.  Texts are sequences of characters, so that the prefix *)
(* and digit tests of the namespace check are the code's.                  *)
(***************************************************************************)
\* Option<&str>
NoNamespace == [some |-> FALSE, s |-> <<>>]

SomeNamespace(s) == [some |-> TRUE, s |-> s]

\* The namespaces declared in the files that are explored: `f`, `b`, and the
\* empty string.
Namespaces == {<<"f">>, <<"b">>, <<>>}

\* The keys of the blocks: f.1 f.12 f. f.x f1 b.1 .1 and `namespace`.
NamespaceKey == <<"n", "a", "m", "e", "s", "p", "a", "c", "e">>

BlockKeys ==
    {<<"f", ".", "1">>, <<"f", ".", "1", "2">>, <<"f", ".">>, <<"f", ".", "x">>,
     <<"f", "1">>, <<"b", ".", "1">>, <<".", "1">>}

\* The bare tokens.
ScriptedTriggerToken == <<"scripted_trigger">>

ScriptedEffectToken == <<"scripted_effect">>

BareTokens == {ScriptedTriggerToken, ScriptedEffectToken, <<"f", ".", "1">>}

\* The items of a file: a key (<<>> for none), a comparator, and a value
\* that is a token (its text in v) or a block.
FileItem(k, cmp, is_block, v) == [k |-> k, cmp |-> cmp, is_block |-> is_block, v |-> v]

NoKey == <<"<none>">>

FileItems ==
    {FileItem(k, cmp, TRUE, <<>>) : k \in BlockKeys \cup {NamespaceKey}, cmp \in {"=", "<"}}
    \cup {FileItem(NamespaceKey, "=", FALSE, v) : v \in Namespaces}
    \cup {FileItem(<<"f", ".", "1">>, "=", FALSE, <<"f">>)}
    \cup {FileItem(NoKey, "=", FALSE, v) : v \in BareTokens}
    \cup {FileItem(NoKey, "=", TRUE, <<>>)}

\* str::strip_prefix: the rest of s after the prefix p
StartsWith(s, p) == Len(s) >= Len(p) /\ SubSeq(s, 1, Len(p)) = p

StripPrefix(s, p) == SubSeq(s, Len(p) + 1, Len(s))

AsciiDigits == {"0", "1", "2", "3", "4", "5", "6", "7", "8", "9"}

\* events.rs 108: key_b.chars().all(|c| c.is_ascii_digit())
AllAsciiDigits(s) == \A i \in 1..Len(s) : s[i] \in AsciiDigits

NamespaceNeverChecked(ns, key) == [ok |-> TRUE, reports |-> <<>>]

\* events.rs 103-125: the namespace check of an event's key
NamespaceCheck(ns, key) ==
    IF ~ns.some
    THEN [ok |-> FALSE,
          reports |-> <<Report("EventNamespace", "Error",
                               "Event files must start with a namespace declaration",
                               key, NoToken)>>]
    ELSE IF ~StartsWith(key, ns.s)
    THEN [ok |-> FALSE,
          reports |-> <<Report("EventNamespace", "Warning",
                               "Event name should start with namespace", key, NoToken)>>]
    ELSE IF ~StartsWith(StripPrefix(key, ns.s), <<".">>)
               \/ ~AllAsciiDigits(StripPrefix(StripPrefix(key, ns.s), <<".">>))
    THEN [ok |-> FALSE,
          reports |-> <<Report("EventNamespace", "Warning",
                               "Event names should be in the form NAMESPACE.NUMBER",
                               key, NoToken)>>]
    ELSE [ok |-> TRUE, reports |-> <<>>]

\* What an iteration of the loop does: its reports, its calls, and the new
\* values of namespace, expecting and error_events.
ItemOutcome(reports, calls, ns, exp, errs) ==
    [reports |-> reports, calls |-> calls, ns |-> ns, exp |-> exp, errs |-> errs]

BareAlwaysPending(it, ns, exp, errs) ==
    IF ~it.is_block /\ it.v = ScriptedTriggerToken
    THEN ItemOutcome(<<>>, <<>>, ns, "ScriptedTrigger", errs)
    ELSE ItemOutcome(<<>>, <<>>, ns, exp, errs)

\* events.rs 137-163: an item without a key
BareItem(it, ns, exp, errs) ==
    IF it.is_block
    THEN ItemOutcome(<<Report("Validation", "Error", "unexpected block", it.v, NoToken)>>,
                 <<>>, ns, exp, errs)
    ELSE IF exp = "Event" /\ it.v = ScriptedTriggerToken
    THEN ItemOutcome(<<>>, <<>>, ns, "ScriptedTrigger", errs)
    ELSE IF exp = "Event" /\ it.v = ScriptedEffectToken
    THEN ItemOutcome(<<>>, <<>>, ns, "ScriptedEffect", errs)
    ELSE ItemOutcome(<<Report("Validation", "Error", "unexpected token", it.v, NoToken)>>,
                 <<>>, ns, exp, errs)

\* events.rs 69-136: an item with a key
KeyedItem(it, ns, exp, errs) ==
    LET d == IF it.cmp # "="
             THEN <<Report("Validation", "Error", "expected key =", it.k, NoToken)>>
             ELSE <<>>
    IN  IF it.k = NamespaceKey
        THEN IF it.is_block
             THEN ItemOutcome(d \o <<Report("EventNamespace", "Error",
                                        "expected namespace to have a simple string value",
                                        it.v, NoToken)>>,
                          <<>>, ns, exp, errs)
             ELSE ItemOutcome(d, <<>>, SomeNamespace(it.v), exp, errs)
        ELSE IF ~it.is_block
        THEN ItemOutcome(d \o <<Report("Validation", "Error",
                                   "unknown setting in event files, expected only namespace",
                                   it.k, NoToken)>>,
                     <<>>, ns, exp, errs)
        ELSE IF exp = "ScriptedTrigger"
        THEN ItemOutcome(d, <<"load_scripted_trigger">>, ns, "Event", errs)
        ELSE IF exp = "ScriptedEffect"
        THEN ItemOutcome(d, <<"load_scripted_effect">>, ns, "Event", errs)
        ELSE LET c == NamespaceCheck(ns, it.k) IN
             IF c.ok
             THEN ItemOutcome(d \o c.reports, <<"load_event">>, ns, exp, errs)
             ELSE ItemOutcome(d \o c.reports, <<>>, ns, exp, errs \cup {it.k})

EvLast(op, it, reports, calls, ns, exp) ==
    [op |-> op, it |-> it, reports |-> reports, calls |-> calls, ns |-> ns, exp |-> exp]

NoFileItem == FileItem(NoKey, "=", FALSE, <<>>)

\* events.rs 10-19: #[derive(Default)]; no file is being read
EventsInit ==
    /\ namespace = NoNamespace
    /\ expecting = "Closed"
    /\ error_events = {}
    /\ ev_last = EvLast("new", NoFileItem, <<>>, <<>>, NoNamespace, "Closed")

\* events.rs 34-66: handle_file is called on the next file.  A file that is
\* not a .txt is skipped, one that cannot be read is reported, and the loop
\* over the items of the others starts without a namespace, expecting an event.
OpenFile ==
    /\ \E f \in {"not_txt", "unreadable", "read"} :
          /\ expecting' = IF f = "read" THEN "Event" ELSE "Closed"
          /\ ev_last' = EvLast("handle_file", NoFileItem,
                               IF f = "unreadable"
                               THEN <<Report("ReadError", "Error", "could not read file",
                                             <<"file">>, NoToken)>>
                               ELSE <<>>,
                               <<>>, namespace, expecting)
    /\ namespace' = NoNamespace
    /\ UNCHANGED <<error_events, otherThanEvents>>

\* events.rs 68-164: one iteration of the loop over the items of the file
HandleItem ==
    /\ expecting # "Closed"
    /\ \E it \in FileItems :
          LET o == IF it.k = NoKey THEN BareItem(it, namespace, expecting, error_events)
                   ELSE KeyedItem(it, namespace, expecting, error_events)
          IN  /\ namespace' = o.ns
              /\ expecting' = o.exp
              /\ error_events' = o.errs
              /\ ev_last' = EvLast("item", it, o.reports, o.calls, namespace, expecting)
    /\ UNCHANGED otherThanEvents

(***************************************************************************)
(* src/src/dds.rs: the sizes of the textures.  A u32 is kept to WordBits   *)
(* bits, so that a product can leave its range within the numbers TLC can  *)
(* hold; bytes are bytes.                                                  *)
(***************************************************************************)
\* The bits of a u32 that are kept.
WordBits == 12

Word == 2 ^ WordBits

\* dds.rs 11-13
DDS_HEADER_SIZE == 124

DDS_HEIGHT_OFFSET == 12

DDS_WIDTH_OFFSET == 16

\* b"DDS "
DdsMagic == <<68, 68, 83, 32>>

\* The first bytes of a file of len bytes: four bytes m, then zeros but for
\* the four bytes h at offset 12 and the four bytes w at offset 16.
FileBytes(len, m, h, w) ==
    [o \in 0..(len - 1) |->
        IF o < 4 THEN m[o + 1]
        ELSE IF o \in 12..15 THEN h[o - 11]
        ELSE IF o \in 16..19 THEN w[o - 15]
        ELSE 0]

\* The files that are explored: whether File::open succeeds, and the bytes.
DdsFileSamples ==
    {[openable |-> TRUE, bytes |-> FileBytes(len, m, h, <<128, 2, 0, 0>>)] :
        len \in {3, DDS_HEADER_SIZE - 1, DDS_HEADER_SIZE, DDS_HEADER_SIZE + 3,
                 DDS_HEADER_SIZE + 4},
        m \in {DdsMagic, <<68, 68, 83, 0>>},
        h \in {<<64, 0, 0, 0>>, <<0, 1, 0, 0>>}}
    \cup {[openable |-> FALSE,
           bytes |-> FileBytes(DDS_HEADER_SIZE + 4, DdsMagic, <<64, 0, 0, 0>>, <<128, 2, 0, 0>>)]}

\* An entry of the file set: the path without its extension, and the extension.
DdsEntries ==
    {[path |-> "gfx/a", ext |-> "dds"], [path |-> "gfx/b", ext |-> "dds"],
     [path |-> "gfx/b", ext |-> "png"]}

from_le32_swapped(buffer, offset) ==
    (buffer[offset + 3] + buffer[offset + 2] * 256 + buffer[offset + 1] * 65536
        + buffer[offset] * 16777216) % Word

\* dds.rs 15-20: from_le32
from_le32(buffer, offset) ==
    (buffer[offset] + buffer[offset + 1] * 256 + buffer[offset + 2] * 65536
        + buffer[offset + 3] * 16777216) % Word

\* dds.rs 95-100: DdsInfo::new
DdsInfo(header) ==
    [width |-> from_le32(header, DDS_WIDTH_OFFSET),
     height |-> from_le32(header, DDS_HEIGHT_OFFSET)]

\* dds.rs 28-41: load_dds gives the new dds_files, its report and whether it
\* returned an Err
load_dds(files, e, f) ==
    IF ~f.openable \/ Cardinality(DOMAIN f.bytes) < DDS_HEADER_SIZE
    THEN [files |-> files, reports |-> <<>>, err |-> TRUE]
    ELSE LET buffer == [o \in 0..(DDS_HEADER_SIZE - 1) |-> f.bytes[o]] IN
         IF <<buffer[0], buffer[1], buffer[2], buffer[3]>> # DdsMagic
         THEN [files |-> files,
               reports |-> <<Report("ImageFormat", "Warning", "not a DDS file", e, NoToken)>>,
               err |-> FALSE]
         ELSE [files |-> [p \in DOMAIN files \cup {e.path} |->
                             IF p = e.path THEN DdsInfo(buffer) ELSE files[p]],
               reports |-> <<>>, err |-> FALSE]

\* u32 * u32: the product wraps in a release build, and the call panics in a
\* build with overflow checks.
MulU32(a, b) ==
    IF a * b < Word THEN {[panic |-> FALSE, v |-> a * b]}
    ELSE {[panic |-> FALSE, v |-> (a * b) % Word], [panic |-> TRUE, v |-> 0]}

FrameWarning(key, msg) ==
    [reports |-> <<Report("ImageFormat", "Warning", msg, key, NoToken)>>, panic |-> FALSE]

NoFrameWarning == [reports |-> <<>>, panic |-> FALSE]

\* dds.rs 43-62: validate_frame; what a call can do
validate_frame(files, key, width, height, frame) ==
    IF key \notin DOMAIN files THEN {NoFrameWarning}
    ELSE IF files[key].height # height
    THEN {FrameWarning(key, "texture does not match frame height")}
    ELSE IF width = 0 \/ files[key].width % width # 0
    THEN {FrameWarning(key, "texture is not a multiple of frame width")}
    ELSE {IF m.panic THEN [reports |-> <<>>, panic |-> TRUE]
          ELSE IF m.v > files[key].width
          THEN FrameWarning(key, "texture is not large enough for frame index")
          ELSE NoFrameWarning : m \in MulU32(frame, width)}

DdsLast(op, key, args, reports, panic) ==
    [op |-> op, key |-> key, args |-> args, reports |-> reports, panic |-> panic]

\* dds.rs 22-25: #[derive(Default)]
DdsInit ==
    /\ dds_files = <<>>
    /\ dds_last = DdsLast("new", "", <<>>, <<>>, FALSE)

\* dds.rs 70-86: DdsFiles::handle_file
DdsHandleFile ==
    /\ UNCHANGED otherThanDds
    /\ \E e \in DdsEntries, f \in DdsFileSamples :
       IF e.ext # "dds"
       THEN /\ dds_last' = DdsLast("handle_file", e.path, <<e, f>>, <<>>, FALSE)
            /\ UNCHANGED dds_files
       ELSE LET r == load_dds(dds_files, e, f) IN
            /\ dds_files' = r.files
            /\ dds_last' = DdsLast("handle_file", e.path, <<e, f>>,
                                   IF r.err
                                   THEN <<Report("ReadError", "Error",
                                                 "could not read dds header", e, NoToken)>>
                                   ELSE r.reports,
                                   FALSE)

\* The widths and the frame indexes asked for.
WidthSamples == {0, 3, 64, 128}

FrameSamples == {0, 1, 5, 6, Word \div 64, Word - 1}

\* dds.rs 43-62: DdsFiles::validate_frame is called by a validator
DdsValidateFrame ==
    /\ \E key \in {"gfx/a", "gfx/c"}, width \in WidthSamples,
          height \in {64, 256}, frame \in FrameSamples :
       \E r \in validate_frame(dds_files, key, width, height, frame) :
          dds_last' = DdsLast("validate_frame", key, <<width, height, frame>>,
                              r.reports, r.panic)
    /\ UNCHANGED <<dds_files, otherThanDds>>

(***************************************************************************)
(* src/src/datatype.rs: validate_datatypes on a chain of codes.  The       *)
(* tables of tables::datafunctions are small samples: an entry is a name,  *)
(* the type it applies to, the types of its arguments and its return type. *)
(***************************************************************************)
\* The longest chain of codes that is explored.
MaxCodes == 3

Datatypes == {"Unknown", "Character", "Title", "CString"}

TableEntry(name, intype, args, rtype) ==
    [name |-> name, intype |-> intype, args |-> args, rtype |-> rtype]

GLOBAL_FUNCTIONS ==
    {TableEntry("GetYear", "Unknown", <<>>, "CString"),
     TableEntry("war", "Unknown", <<>>, "CString")}

GLOBAL_PROMOTES ==
    {TableEntry("GetPlayer", "Unknown", <<>>, "Character"),
     TableEntry("GetTitleByKey", "Unknown", <<"CString">>, "Title")}

PROMOTES ==
    {TableEntry("GetLiege", "Character", <<>>, "Character"),
     TableEntry("GetPrimaryTitle", "Character", <<>>, "Title")}

FUNCTIONS ==
    {TableEntry("GetName", "Character", <<>>, "CString"),
     TableEntry("GetTitleTier", "Title", <<>>, "CString"),
     TableEntry("Custom", "Character", <<"CString">>, "CString")}

\* The game concepts: `war` is also in the table of global functions.
GameConcepts == {"war"}

NotFound == [res |-> "NotFound", args |-> <<>>, rtype |-> "Unknown"]

\* lookup_global_function and lookup_global_promote
LookupGlobal(table, name) ==
    IF \E e \in table : e.name = name
    THEN LET e == CHOOSE e \in table : e.name = name
         IN  [res |-> "Found", args |-> e.args, rtype |-> e.rtype]
    ELSE NotFound

\* lookup_function and lookup_promote: LookupResult
LookupTyped(table, name, ltype) ==
    IF ~\E e \in table : e.name = name THEN NotFound
    ELSE IF \E e \in table : e.name = name /\ (ltype = "Unknown" \/ e.intype = ltype)
    THEN LET e == CHOOSE e \in table :
                     e.name = name /\ (ltype = "Unknown" \/ e.intype = ltype)
         IN  [res |-> "Found", args |-> e.args, rtype |-> e.rtype]
    ELSE [res |-> "WrongType", args |-> <<>>, rtype |-> "Unknown"]

\* A token of a chain: its text and its place, the positions that lead to it.
At(name, place) == [s |-> name, place |-> place]

DtError(msg, at) == <<Report("DataFunctions", "Error", msg, at, NoToken)>>

\* What a run over a chain gives: the reports, the current type after every
\* code that was passed, and the position of the code where it returned
\* early (0 when it did not).
DtResult(reports, types, returned) ==
    [reports |-> reports, types |-> types, returned |-> returned]

\* datatype.rs 95-141: what the tables give for the code at its position
PositionLookup(name, curtype, is_first, is_last, gf, gp) ==
    IF is_first /\ is_last THEN gf
    ELSE IF is_first THEN gp
    ELSE IF ~is_last THEN LookupTyped(PROMOTES, name, curtype)
    ELSE LookupTyped(FUNCTIONS, name, curtype)

NotFoundAccepted(name, is_first, is_last, gf_found, gp_found, f_found, p_found) == ""

\* datatype.rs 143-194: the message for a code that was not found at its
\* position, "" when it is in no table
NotFoundError(name, is_first, is_last, gf_found, gp_found, f_found, p_found) ==
    IF is_first /\ (p_found \/ f_found) /\ ~gp_found /\ ~gf_found
    THEN "can not be the first in a chain"
    ELSE IF is_last /\ (gp_found \/ p_found) /\ ~gf_found /\ ~f_found
    THEN "can not be last in a chain"
    ELSE IF ~is_first /\ (gp_found \/ gf_found) /\ ~p_found /\ ~f_found
    THEN "must be the first in a chain"
    ELSE IF ~is_last /\ (gf_found \/ f_found) /\ ~gp_found /\ ~p_found
    THEN "must be last in the chain"
    ELSE IF gp_found \/ gf_found \/ p_found \/ f_found
    THEN "is improperly used here"
    ELSE ""

RECURSIVE validate_datatypes(_, _, _)
RECURSIVE DtLoop(_, _, _, _, _)
RECURSIVE validate_arguments(_, _, _, _)

\* datatype.rs 49-66: validate_argument
validate_argument(arg, expect_type, place) ==
    IF arg.chain # <<>> THEN validate_datatypes(arg.chain, expect_type, place).reports
    ELSE IF Head(arg.literal) = "(" THEN <<>>
    ELSE IF expect_type # "Unknown" /\ expect_type # "CString"
    THEN DtError("expected another type, got CString", At("literal", place))
    ELSE <<>>

\* datatype.rs 208-226: the arguments, one after the other
validate_arguments(arguments, types, n, place) ==
    IF n > Len(arguments) THEN <<>>
    ELSE validate_argument(arguments[n], types[n], place \o <<n>>)
            \o validate_arguments(arguments, types, n + 1, place)

\* datatype.rs 70-246: the loop from the code i on, with the current type
DtLoop(codes, i, curtype, expect_type, place) ==
    IF i > Len(codes) THEN DtResult(<<>>, <<>>, 0)
    ELSE
    LET code == codes[i]
        at == At(code.name, place \o <<i>>)
        is_first == i = 1
        is_last == i = Len(codes)
        gf == IF code.name \in GameConcepts THEN NotFound
              ELSE LookupGlobal(GLOBAL_FUNCTIONS, code.name)
        gp == LookupGlobal(GLOBAL_PROMOTES, code.name)
        f == LookupTyped(FUNCTIONS, code.name, curtype)
        p == LookupTyped(PROMOTES, code.name, curtype)
        l == PositionLookup(code.name, curtype, is_first, is_last, gf, gp)
        msg == NotFoundError(code.name, is_first, is_last, gf.res # "NotFound",
                             gp.res # "NotFound", f.res # "NotFound", p.res # "NotFound")
    IN  IF l.res = "WrongType"
        THEN DtResult(DtError("can not follow a promote of the current type", at), <<>>, i)
        ELSE IF l.res = "NotFound" /\ msg # ""
        THEN DtResult(DtError(msg, at), <<>>, i)
        ELSE
        LET d == IF Len(l.args) # Len(code.arguments)
                 THEN DtError("takes another number of arguments", at)
                 ELSE validate_arguments(code.arguments, l.args, 1, place \o <<i>>)
        IN  IF is_last /\ l.rtype # "Unknown" /\ expect_type # "Unknown"
                  /\ l.rtype # expect_type
            THEN DtResult(d \o DtError("returns another type than is needed here", at),
                          <<l.rtype>>, i)
            ELSE LET r == DtLoop(codes, i + 1, l.rtype, expect_type, place)
                 IN  DtResult(d \o r.reports, <<l.rtype>> \o r.types, r.returned)

\* datatype.rs 68-69: validate_datatypes starts with the type Unknown
validate_datatypes(chain, expect_type, place) ==
    DtLoop(chain, 1, "Unknown", expect_type, place)

\* The arguments of a code: a literal, or a chain of codes.
Literal(s) == [literal |-> s, chain |-> <<>>]

ChainArg(codes) == [literal |-> <<>>, chain |-> codes]

Code(name, arguments) == [name |-> name, arguments |-> arguments]

\* The codes that are explored.  `Scope` is in no table.
CodeSamples ==
    {Code(n, <<>>) : n \in {"GetYear", "war", "GetPlayer", "GetTitleByKey", "GetLiege",
                          "GetPrimaryTitle", "GetName", "GetTitleTier", "Scope"}}
    \cup {Code("GetTitleByKey", <<Literal(<<"k">>)>>),
          Code("Custom", <<Literal(<<"(", "i">>)>>),
          Code("Custom", <<ChainArg(<<Code("GetLiege", <<>>)>>)>>),
          Code("Custom", <<ChainArg(<<Code("GetYear", <<>>)>>)>>),
          Code("Scope", <<Literal(<<"k">>)>>)}

Chains == UNION {[1..n -> CodeSamples] : n \in 1..MaxCodes}

DtIdle == [chain |-> <<>>, expect_type |-> "Unknown", result |-> DtResult(<<>>, <<>>, 0)]

DtInit == dt = DtIdle

\* datatype.rs 68: validate_datatypes is called on a chain
ValidateDatatypes ==
    /\ dt = DtIdle
    /\ UNCHANGED otherThanDatatypes
    /\ \E chain \in Chains, expect_type \in {"Unknown", "CString", "Title"} :
       dt' = [chain |-> chain, expect_type |-> expect_type,
              result |-> validate_datatypes(chain, expect_type, <<>>)]

\* datatype.rs 247: the call has returned
DtReturn ==
    /\ dt # DtIdle
    /\ dt' = DtIdle
    /\ UNCHANGED otherThanDatatypes

\* Nothing has been loaded yet.
DataInit == CharactersInit /\ EventsInit /\ DdsInit /\ DtInit

(***************************************************************************)
(* The state after construction: one of the two public entry points is     *)
(* called on a block, in a character scope.                                *)
(***************************************************************************)
Entries ==
    {[fn |-> "validate_trigger", tooltipped |-> "FailuresOnly", max_sev |-> "Error"],
     [fn |-> "validate_trigger_max_sev", tooltipped |-> "Yes", max_sev |-> "Warning"]}

Init ==
    /\ entry \in Entries
    /\ stack = <<IF entry.fn = "validate_trigger"
                 THEN ValidateTriggerFrame("entry", entry.tooltipped)
                 ELSE ValidateTriggerMaxSevFrame("entry", entry.tooltipped, entry.max_sev)>>
    /\ sc = sc_new(CharacterS, Tok("item", "outer"))
    /\ walk = Idle
    /\ last = [Ready EXCEPT !.fn = "init", !.nxt = "ready"]
    /\ DataInit

(***************************************************************************)
(* validate_trigger_internal: the fields taken by the validator before     *)
(* the loop, and the special keys of the loop.                             *)
(***************************************************************************)
BanDiag(key, f) == <<vd_report("Validation", "Error", "field is only for", key, f.max_sev)>>

\* trigger.rs 131-153 and 188-198: `limit`, `filter`, and `trigger` of a modifier
SubTriggerAllowed(which, f) ==
    CASE which = "limit" -> f.caller \in {"trigger_if", "trigger_else_if", "trigger_else"}
      [] which = "filter" -> f.in_list
      [] which = "trigger" -> f.caller = "modifier"

SubTriggerField ==
    /\ InBlock("trigger")
    /\ \E which \in {w \in {"limit", "filter", "trigger"} :
                         Len(stack) <= 2 \/ w = "limit" \/ SubTriggerAllowed(w, Top(stack))} :
          LET f == Top(stack) IN
          IF SubTriggerAllowed(which, f)
          THEN /\ Len(stack) < MaxDepth
               /\ stack' = Append(stack, ValidateTriggerFrame(which, "No"))
               /\ last' = [L("sub_trigger", which, FALSE, FALSE, "=", "block",
                             IF which = "limit" /\ f.caller = "trigger_else"
                             THEN <<advice_info("IfElse", "trigger_else with a limit", which)>>
                             ELSE <<>>,
                             <<Op("validate_trigger", sc)>>, FALSE, NoInfo)
                           EXCEPT !.nxt = "push"]
               /\ UNCHANGED <<sc, walk, entry, dataVars>>
          ELSE /\ last' = L("sub_trigger", which, FALSE, FALSE, "=", "block",
                            BanDiag(which, f), <<>>, FALSE, NoInfo)
               /\ UNCHANGED <<stack, sc, walk, entry, dataVars>>

\* trigger.rs 188-198 and 211-220: add, factor, value, desc
PlainAllowed(key, f) ==
    CASE key \in {"add", "factor", "desc"} -> f.caller = "modifier"
      [] key = "value" -> f.caller = "custom_description"

PlainField ==
    /\ InBlock("trigger")
    /\ \E key \in (IF Len(stack) <= 2 THEN {"add", "factor", "value", "desc"} ELSE {"add"}) :
          LET f == Top(stack) IN
          IF PlainAllowed(key, f)
          THEN IF key = "desc"
               THEN /\ last' = L("plain", key, FALSE, FALSE, "=", "", <<>>,
                                 <<Op("validate_desc", sc)>>, FALSE, NoInfo)
                    /\ UNCHANGED <<stack, sc, walk, entry, dataVars>>
               ELSE /\ last' = L("plain", key, FALSE, FALSE, "=", "", <<>>,
                                 <<Op("validate_script_value", sc)>>, TRUE, NoInfo)
                    /\ stack' = OrSide(stack, TRUE)
                    /\ UNCHANGED <<sc, walk, entry, dataVars>>
          ELSE /\ last' = L("plain", key, FALSE, FALSE, "=", "", BanDiag(key, f), <<>>,
                            FALSE, NoInfo)
               /\ UNCHANGED <<stack, sc, walk, entry, dataVars>>

\* trigger.rs 175-186 and 222-227: subject, object
TargetFieldAllowed(key, f) ==
    CASE key = "subject" -> f.caller \in {"custom_description", "custom_tooltip"}
      [] key = "object" -> f.caller = "custom_description"

TargetField ==
    /\ InBlock("trigger")
    /\ \E key \in (IF Len(stack) <= 2 THEN {"subject", "object"} ELSE {"subject"}),
          val \in (IF Len(stack) = 2 THEN {"block", "number", "chain"} ELSE {"chain"}) :
          LET f == Top(stack) IN
          IF TargetFieldAllowed(key, f)
          THEN IF val = "block"
               THEN Apply(Leaf(sc, ExpectValueDiag(key), <<>>, FALSE),
                          L("target_field", key, FALSE, FALSE, "=", val,
                            ExpectValueDiag(key), <<>>, FALSE, NoInfo), FALSE, "")
               ELSE LET o == TargetCall(sc, <<>>, <<>>, val, non_primitive, FALSE, <<>>) IN
                    Apply(o, L("target_field", key, FALSE, FALSE, "=", val, o.diags, o.ops,
                               FALSE, NoInfo), FALSE, "")
          ELSE /\ last' = L("target_field", key, FALSE, FALSE, "=", val, BanDiag(key, f),
                            <<>>, FALSE, NoInfo)
               /\ UNCHANGED <<stack, sc, walk, entry, dataVars>>

IteratorMisuseUnreported(it_type) == <<>>

\* trigger.rs 236-240: only any_ lists can be used in a trigger
IteratorMisuseDiags(it_type) ==
    <<error("Validation", "cannot use list in a trigger", it_type)>>

IteratorFrameNotInList(it_name, f) ==
    Frame("trigger", "iterator", it_name, FALSE, f.tooltipped, f.negated, f.max_sev, TRUE,
          <<>>, TRUE)

\* trigger.rs 245-255: the call of validate_trigger_internal on the iterator's
\* block, followed by sc.close()
IteratorFrame(it_name, f) ==
    Frame("trigger", "iterator", it_name, TRUE, f.tooltipped, f.negated, f.max_sev, TRUE,
          <<>>, TRUE)

\* trigger.rs 229-260: a key `<type>_<name>` whose name is a known iterator
IteratorField ==
    /\ InBlock("trigger")
    /\ \E it_type \in (IF Len(stack) = 1 THEN {"any", "every", "ordered", "random"}
                         ELSE IF Len(stack) <= 3 THEN {"any", "every"}
                         ELSE {"every"}),
          it_name \in IteratorNames,
          val \in (IF Len(stack) = 1 THEN {"block", "yes"} ELSE {"block"}) :
          LET f == Top(stack)
              io == scope_iterator(it_name)
              key == Tok(it_type, "outer")
              s1 == sc_expect(sc, io[1], key)
              s2 == sc_open_scope(s1, io[2], key)
          IN  IF it_type # "any"
              THEN /\ last' = L("iterator", it_type, FALSE, FALSE, "=", val,
                                IteratorMisuseDiags(it_type), <<>>, FALSE, NoInfo)
                   /\ UNCHANGED <<stack, sc, walk, entry, dataVars>>
              ELSE IF val = "block"
              THEN /\ Len(stack) < MaxDepth
                   /\ sc' = s2
                   /\ stack' = Append(stack, IteratorFrame(it_name, f))
                   /\ last' = [L("iterator", it_type, FALSE, FALSE, "=", val,
                                 sc_expect_diags(sc, io[1], key)
                                     \o TooltipWarning(it_name, f.tooltipped, f.negated),
                                 <<Op("expect", sc), Op("precheck_iterator_fields", s1),
                                   Op("open_scope", s1), Op("validate_trigger_internal", s2)>>,
                                 FALSE, NoInfo)
                               EXCEPT !.nxt = "push"]
                   /\ UNCHANGED <<walk, entry, dataVars>>
              ELSE /\ sc' = s1
                   /\ last' = L("iterator", it_type, FALSE, FALSE, "=", val,
                                sc_expect_diags(sc, io[1], key) \o ExpectBlockDiag(it_type),
                                <<Op("expect", sc)>>, FALSE, NoInfo)
                   /\ UNCHANGED <<stack, walk, entry, dataVars>>

(***************************************************************************)
(* validate_trigger_key_bv.                                                *)
(***************************************************************************)
\* trigger.rs 310-318: the first declared parameter missing from the block
FirstMissing(parms, args) ==
    LET missing == {i \in 1..Len(parms) : parms[i] \notin args}
    IN  IF missing = {} THEN 0 ELSE CHOOSE i \in missing : \A j \in missing : i <= j

\* trigger.rs 314-315: the report of a missing parameter
MissingParmDiag(parm) == err("Macro", "this scripted trigger needs parameter", parm)

ExtraParmDiagsFirstOnly(parms, args) ==
    LET extra == SelectSeq(ArgOrder, LAMBDA a : a \in args /\ a \notin SeqToSet(parms))
    IN  IF extra = <<>> THEN <<>>
        ELSE <<fatal("Macro", "this scripted trigger does not need parameter", extra[1])>>

\* trigger.rs 319-323: unknown_value_fields, one report per undeclared parameter
ExtraParmDiags(parms, args) ==
    LET extra == SelectSeq(ArgOrder, LAMBDA a : a \in args /\ a \notin SeqToSet(parms))
    IN  [i \in 1..Len(extra) |->
            fatal("Macro", "this scripted trigger does not need parameter", extra[i])]

\* trigger.rs 287-332: the key is a scripted trigger.  val is the class of the
\* value, args the value fields of the block when it is one.
ScriptedTriggerCall(s, name, val, args, f) ==
    LET parms == macro_parms(name) IN
    IF val # "block"
    THEN LET d1 == IF val \notin {"yes", "no", "YES", "NO"}
                   THEN <<old_warn("Validation", "expected yes or no", val)>> ELSE <<>>
         IN  IF parms # <<>>
             THEN [diags |-> d1 \o <<fatal("Macro", "expected macro arguments", val)>>,
                   ops |-> <<>>, neg |-> f.negated]
             ELSE [diags |-> d1, ops |-> <<Op("trigger.validate_call", s)>>,
                   neg |-> IF val = "no" THEN ~f.negated ELSE f.negated]
    ELSE IF parms = <<>>
    THEN [diags |-> <<fatal("Macro", "this scripted trigger does not need macro arguments",
                            name)>>,
          ops |-> <<>>, neg |-> f.negated]
    ELSE IF FirstMissing(parms, args) # 0
    THEN [diags |-> <<MissingParmDiag(parms[FirstMissing(parms, args)])>>,
          ops |-> <<>>, neg |-> f.negated]
    ELSE [diags |-> ExtraParmDiags(parms, args),
          ops |-> <<Op("trigger.validate_macro_expansion", s)>>, neg |-> f.negated]

ScriptedTriggerField ==
    /\ InBlock("trigger")
    /\ \E name \in ScriptedTriggerNames, val \in {"block", "yes", "no", "YES", "NO", "chain"},
          args \in SUBSET ArgNames :
          /\ val # "block" => args = {}
          /\ Len(stack) = 2 => val \in {"block", "no"} /\ args \in {{}, {"A"}}
          /\ Len(stack) > 2 => (name = "my_trigger" /\ val = "no")
                                   \/ (name = "my_macro" /\ args = {"A"})
          /\ LET r == ScriptedTriggerCall(sc, name, val, args, Top(stack)) IN
             last' = L("scripted_trigger", name, FALSE, FALSE, "=", val, r.diags, r.ops,
                       FALSE, [NoInfo EXCEPT !.neg = r.neg, !.args = args])
    /\ UNCHANGED <<stack, sc, walk, entry, dataVars>>

\* trigger.rs 334-338: `10 < script value`
NumberKeyField ==
    /\ InBlock("trigger")
    /\ last' = L("number_key", "10", FALSE, FALSE, "<", "", <<>>,
                 <<Op("validate_script_value", sc)>>, FALSE, NoInfo)
    /\ UNCHANGED <<stack, sc, walk, entry, dataVars>>

\* One iteration of the loop of validate_trigger_key_bv on scope context s0,
\* and, after the last part, the rest of the function.
KeyIteration(s0, fn, parts, f, ors, then) ==
    \E part \in KeyParts(Len(stack), Len(parts)),
       islast \in LastChoices(Len(parts), Len(stack)) :
       LET first == parts = <<>>
           found == IF part \in TriggerNames THEN part ELSE ""
       IN  \E rhs \in (IF ~islast /\ part # "event_id:e.1" THEN {<<"=", "">>}
                       ELSE IF then = "" THEN RhsFor(found, part, Len(stack))
                       ELSE SwitchRhsFor(found)) :
              LET cmp == rhs[1]
                  val == rhs[2]
                  r == KeyPart(s0, part, first, islast, cmp, Svi(part, islast))
              IN  IF r.exit
                  THEN Apply(Leaf(r.sc, r.diags, r.ops, FALSE),
                             L(fn, part, first, islast, cmp, val, r.diags, r.ops, FALSE,
                               NoInfo),
                             ors, then)
                  ELSE IF islast \/ r.brk
                  THEN LET o == KeyFinish(r.sc, r.found, part, cmp, val, f) IN
                       Apply(o,
                             L(fn, part, first, islast, cmp, val, r.diags \o o.diags,
                               r.ops \o o.ops, o.side,
                               [NoInfo EXCEPT !.resolved = TRUE]),
                             ors, then)
                  ELSE /\ sc' = r.sc
                       /\ walk' = Walk("key", Append(parts, part), {}, FALSE, "", <<>>, then)
                       /\ last' = [L(fn, part, first, islast, cmp, "", r.diags, r.ops, FALSE,
                                     NoInfo) EXCEPT !.nxt = "walk"]
                       /\ UNCHANGED <<stack, entry, dataVars>>

\* trigger.rs 262-263 and 349-352: a key that is a chain, its first part
KeyField ==
    /\ InBlock("trigger")
    /\ KeyIteration(sc_open_builder(sc), "key_part", <<>>, Top(stack), TRUE, "")

\* trigger.rs 353-497: the next part of the key
KeyStep ==
    /\ walk.fn = "key"
    /\ KeyIteration(sc, "key_part", walk.parts, Top(stack), walk.then = "", walk.then)

(***************************************************************************)
(* validate_target_ok_this and validate_target.                            *)
(***************************************************************************)
UseOfThisAlways(w, parts) ==
    IF w.warn_this
    THEN <<old_warn("UseOfThis", "target this makes no sense here", "this")>>
    ELSE <<>>

\* trigger.rs 1102-1105: validate_target warns about a literal `this`
UseOfThisDiag(w, parts) ==
    IF w.warn_this /\ parts = <<"this">>
    THEN <<old_warn("UseOfThis", "target this makes no sense here", "this")>>
    ELSE <<>>

\* trigger.rs 981-1096: one iteration of the loop of validate_target_ok_this,
\* and, after the last part, the rest of the function and of its caller.
TargetStep ==
    /\ walk.fn = "target"
    /\ \E part \in (IF walk.lit # "" THEN {walk.lit}
                     ELSE TargetParts(Len(stack), Len(walk.parts))),
          islast \in (IF walk.lit # "" THEN {TRUE}
                      ELSE LastChoices(Len(walk.parts), Len(stack))) :
          LET first == walk.parts = <<>>
              s0 == IF first THEN sc_open_builder(sc) ELSE sc
              r == TargetPart(s0, part, first, islast, Svi(part, islast))
              parts == Append(walk.parts, part)
              opn == IF first THEN <<Op("open_builder", sc)>> ELSE <<>>
          IN  IF r.exit
              THEN LET d == r.diags \o UseOfThisDiag(walk, parts) \o walk.tail IN
                   Apply(Leaf(r.sc, d, opn \o r.ops, FALSE),
                         L("target_part", part, first, islast, "=", "", d, opn \o r.ops,
                           FALSE, [NoInfo EXCEPT !.outscopes = walk.outscopes]),
                         FALSE, walk.then)
              ELSE IF islast \/ r.brk
              THEN LET fin == TargetFinalCheck(r.sc, part, walk.outscopes)
                       d == r.diags \o fin \o UseOfThisDiag(walk, parts) \o walk.tail
                       ops == opn \o r.ops \o <<Op("close", r.sc)>>
                   IN  Apply(Leaf(sc_close(r.sc), d, ops, FALSE),
                             L("target_part", part, first, islast, "=", "", d, ops, FALSE,
                               [NoInfo EXCEPT !.outscopes = walk.outscopes,
                                              !.final_scopes = sc_scopes_reason(r.sc)[1],
                                              !.because = sc_scopes_reason(r.sc)[2],
                                              !.final = fin,
                                              !.resolved = TRUE]),
                             FALSE, walk.then)
              ELSE /\ sc' = r.sc
                   /\ walk' = [walk EXCEPT !.parts = parts]
                   /\ last' = [L("target_part", part, first, islast, "=", "", r.diags,
                                 opn \o r.ops, FALSE, NoInfo) EXCEPT !.nxt = "walk"]
                   /\ UNCHANGED <<stack, entry, dataVars>>

(***************************************************************************)
(* The loops of match_trigger_fields, `switch` and `weighted_calc_true_if`.*)
(***************************************************************************)
\* trigger.rs 536-553: a field of a Block descriptor
FieldsField ==
    /\ InBlock("fields")
    /\ \E field \in BlockFields, cmp \in {"=", "!="},
          val \in (IF Len(stack) = 2 THEN {"block", "number", "chain"} ELSE {"number"}) :
          LET o == match_trigger_bv(sc, block_field_trigger(field), field, cmp, val,
                                    Top(stack))
          IN  Apply(o, L("fields_field", field, FALSE, FALSE, cmp, val, o.diags, o.ops,
                         o.side, NoInfo), TRUE, "")

\* trigger.rs 899-915: a branch of `switch`
SwitchBranch ==
    /\ InBlock("switch")
    /\ Len(stack) < MaxDepth
    /\ \/ /\ stack' = Append(SetTop(stack, [Top(stack) EXCEPT !.count = 1]),
                             SwitchBranchFrame(Top(stack)))
          /\ last' = [L("switch_branch", "fallback", FALSE, FALSE, "=", "block", <<>>,
                        <<Op("validate_trigger", sc)>>, FALSE, NoInfo)
                      EXCEPT !.nxt = "push"]
          /\ UNCHANGED <<sc, walk, entry, dataVars>>
       \/ KeyIteration(sc_open_builder(sc), "switch_key_part", <<>>, Top(stack), FALSE,
                          "switch_branch")

\* trigger.rs 887-889: a branch of `weighted_calc_true_if`
WctiBranch ==
    /\ InBlock("wcti")
    /\ Len(stack) < MaxDepth
    /\ stack' = Append(stack, ValidateTriggerFrame("wcti_branch", Top(stack).tooltipped))
    /\ last' = [L("wcti_branch", "1", FALSE, FALSE, "=", "block", <<>>,
                  <<Op("validate_trigger", sc)>>, FALSE, NoInfo)
                EXCEPT !.nxt = "push"]
    /\ UNCHANGED <<sc, walk, entry, dataVars>>

(***************************************************************************)
(* The end of a block: the call returns to its caller.                     *)
(***************************************************************************)
Return ==
    /\ walk.fn = "idle"
    /\ stack # <<>>
    /\ last.nxt \in {"ready", "push"}
    /\ LET f == Top(stack)
           d == (IF f.kind = "switch" /\ f.count = 0
                 THEN <<err("Logic", "switch with no branches", "switch")>> ELSE <<>>)
                    \o f.tail
       IN  /\ sc' = IF f.close THEN sc_close(sc) ELSE sc
           /\ stack' = IF Len(stack) = 1 THEN <<>>
                       ELSE OrSide(Pop(stack), f.ors /\ f.side)
           /\ last' = L("return", f.caller, FALSE, FALSE, "=", "", d,
                        IF f.close THEN <<Op("close", sc)>> ELSE <<>>, f.side,
                        [NoInfo EXCEPT !.depth = Len(sc), !.via = f.via])
    /\ UNCHANGED <<walk, entry, dataVars>>

\* The loop over the fields of the block goes on to the next field.
NextField ==
    /\ walk.fn = "idle"
    /\ stack # <<>>
    /\ last.nxt = "leaf"
    /\ last' = Ready
    /\ UNCHANGED <<stack, sc, walk, entry, dataVars>>

Next ==
    \/ NextField
    \/ SubTriggerField
    \/ PlainField
    \/ TargetField
    \/ IteratorField
    \/ ScriptedTriggerField
    \/ NumberKeyField
    \/ KeyField
    \/ KeyStep
    \/ TargetStep
    \/ FieldsField
    \/ SwitchBranch
    \/ WctiBranch
    \/ Return

Spec == Init /\ [][Next]_vars

(***************************************************************************)
(* The other parts of the program, each run on its own while no trigger    *)
(* is being validated.                                                     *)
(***************************************************************************)
\* No trigger is being validated, and nothing has been loaded yet.
DataOnlyInit ==
    /\ entry = CHOOSE e \in Entries : e.fn = "validate_trigger"
    /\ stack = <<>>
    /\ sc = sc_new(CharacterS, Tok("item", "outer"))
    /\ walk = Idle
    /\ last = [Ready EXCEPT !.fn = "init", !.nxt = "ready"]
    /\ config_only_born = NoDate
    /\ characters = <<>>
    /\ ch_last = ChLast("new", NoToken, <<>>, <<>>, <<>>)
    /\ namespace = NoNamespace
    /\ expecting = "Closed"
    /\ error_events = {}
    /\ ev_last = EvLast("new", NoFileItem, <<>>, <<>>, NoNamespace, "Closed")
    /\ dds_files = <<>>
    /\ dds_last = DdsLast("new", "", <<>>, <<>>, FALSE)
    /\ dt = DtIdle

CharactersNext ==
    \/ Config
    \/ LoadItem
    \/ VerifyExistsGender
    \/ Validate

SpecCharacters == DataOnlyInit /\ [][CharactersNext]_vars

EventsNext ==
    \/ OpenFile
    \/ HandleItem

SpecEvents == DataOnlyInit /\ [][EventsNext]_vars

DdsNext ==
    \/ DdsHandleFile
    \/ DdsValidateFrame

SpecDds == DataOnlyInit /\ [][DdsNext]_vars

DatatypesNext ==
    \/ ValidateDatatypes
    \/ DtReturn

SpecDatatypes == DataOnlyInit /\ [][DatatypesNext]_vars

(***************************************************************************)
(* Properties.                                                             *)
(***************************************************************************)
\* The number of diagnostics of q with key `key` and severity `sev`.
CountDiags(q, key, sev) ==
    Cardinality({i \in 1..Len(q) : q[i].key = key /\ q[i].sev = sev})

\* The names of the calls of a sequence of calls.
OpNames(ops) == [i \in 1..Len(ops) |-> ops[i].op]

\* The builder of the chain being walked is open.
BuilderOpen == walk.fn = "key" \/ (walk.fn = "target" /\ walk.parts # <<>>)

\* C1: every open_builder of the chain walkers and every open_scope of an
\* iterator is matched by exactly one close on every path: between two
\* fields the scope context holds its root entry, one entry per iterator
\* body or scope-chain block being validated, and one more exactly while a
\* chain is being walked; so when the entry call has returned, and whenever
\* a nested call returns, the depth is what it was before the call.
C1_OpenCloseBalanced ==
    Len(sc) = 1 + Cardinality({i \in 1..Len(stack) : stack[i].close})
                + (IF BuilderOpen THEN 1 ELSE 0)

\* An unknown token met as a key inside the body of an iterator: the builder
\* was closed, the scope opened for the iterator is still there.
C1_Witness ==
    /\ Len(stack) = 2
    /\ Top(stack).via = "iterator"
    /\ last.fn = "key_part"
    /\ last.part = "wibble"
    /\ walk.fn = "idle"
    /\ Len(sc) = 2

\* C2: a scripted trigger with macro parameters called with a block lacking
\* one of them gives exactly one diagnostic, key Macro, severity Fatal,
\* naming the first missing parameter, and the expansion is not validated.
C2_MissingParameterIsFatal ==
    (/\ last.fn = "scripted_trigger"
     /\ last.val = "block"
     /\ macro_parms(last.part) # <<>>
     /\ FirstMissing(macro_parms(last.part), last.info.args) # 0)
    => /\ Len(last.diags) = 1
       /\ last.diags[1].key = "Macro"
       /\ last.diags[1].sev = "Fatal"
       /\ last.diags[1].msg = "this scripted trigger needs parameter"
       /\ last.diags[1].at =
             macro_parms(last.part)[FirstMissing(macro_parms(last.part), last.info.args)]
       /\ last.ops = <<>>

\* C3 (as amended): a value given to a scripted trigger that declares
\* parameters, or a block given to one that declares none, gives exactly one
\* Fatal Macro diagnostic and the body is not validated; and when the block
\* supplies every declared parameter, each parameter that is not declared
\* gives one Fatal Macro diagnostic.
C3_MacroArgumentShape ==
    last.fn = "scripted_trigger" =>
       LET parms == macro_parms(last.part)
           nfatal == CountDiags(last.diags, "Macro", "Fatal")
       IN  /\ (last.val # "block" /\ parms # <<>>) => (nfatal = 1 /\ last.ops = <<>>)
           /\ (last.val = "block" /\ parms = <<>>) => (nfatal = 1 /\ last.ops = <<>>)
           /\ (last.val = "block" /\ parms # <<>> /\ SeqToSet(parms) \subseteq last.info.args)
                 => nfatal = Cardinality(last.info.args \ SeqToSet(parms))

\* A call that supplies both declared parameters and two more.
C3_Witness ==
    /\ last.fn = "scripted_trigger"
    /\ last.part = "my_macro"
    /\ last.val = "block"
    /\ last.info.args = {"A", "B", "C", "D"}
    /\ CountDiags(last.diags, "Macro", "Fatal") = 2

\* C3 (as written): every parameter of the block that is not declared gives
\* one Fatal Macro diagnostic, whatever else the block holds.
C3_EveryExtraParameterReported ==
    (last.fn = "scripted_trigger" /\ last.val = "block" /\ macro_parms(last.part) # <<>>)
    => CountDiags(last.diags, "Macro", "Fatal")
          = Cardinality(last.info.args \ SeqToSet(macro_parms(last.part)))

\* C4: under validate_trigger_max_sev no diagnostic, of the block or of any
\* block nested in it, is more severe than max_sev.
C4_MaxSeverityCap ==
    entry.fn = "validate_trigger_max_sev" =>
       \A i \in 1..Len(last.diags) : SevRank(last.diags[i].sev) <= SevRank(entry.max_sev)

\* C5: a nested block is validated with the negation of the block it is in,
\* flipped exactly when it is the block of not, nor, nand or all_false.
C5_NegatedPropagated ==
    \A i \in 2..Len(stack) :
       stack[i].negated =
          (IF stack[i].via = "control" /\ stack[i].caller \in {"not", "nor", "nand", "all_false"}
           THEN ~stack[i - 1].negated
           ELSE stack[i - 1].negated)
\* The frame i of the stack is the block of a `not`.
NotFrame(i) == stack[i].via = "control" /\ stack[i].caller = "not"

\* The frame f with the tooltipped, negated and max_sev of the frame g.
WithFlagsOf(f, g) ==
    [f EXCEPT !.tooltipped = g.tooltipped, !.negated = g.negated, !.max_sev = g.max_sev]

\* What validate_trigger_key_bv does with the one-part key of `last` in the
\* frame f, on the scope context s.
KeyOutcome(s, f) ==
    LET r == KeyPart(sc_open_builder(s), last.part, TRUE, last.islast, last.cmp,
                     Svi(last.part, last.islast))
        o == KeyFinish(r.sc, r.found, last.part, last.cmp, last.val, f)
    IN  IF r.exit THEN [diags |-> r.diags, ops |-> r.ops, sc |-> r.sc]
        ELSE [diags |-> r.diags \o o.diags, ops |-> r.ops \o o.ops, sc |-> o.sc]

\* C6: the block of a `not` is validated with `negated` flipped once and
\* with the other flags unchanged, entering it emits nothing, and in
\* not = { not = { T } } the trigger T (a scripted trigger call or a
\* one-part key) gives the diagnostics, the calls and the scope context
\* that it gives when validated with the flags of the block that holds the
\* outer `not`.
C6_DoubleNegation ==
    LET n == Len(stack) IN
    /\ \A i \in 2..n :
          NotFrame(i) => /\ stack[i].negated = ~stack[i - 1].negated
                         /\ stack[i].tooltipped = stack[i - 1].tooltipped
                         /\ stack[i].max_sev = stack[i - 1].max_sev
                         /\ ~stack[i].close
    /\ \A i \in 3..n :
          (NotFrame(i) /\ NotFrame(i - 1)) => stack[i] = WithFlagsOf(stack[i], stack[i - 2])
    /\ (last.fn = "key_part" /\ last.part = "not" /\ last.nxt = "push") => last.diags = <<>>
    /\ (n >= 3 /\ NotFrame(n) /\ NotFrame(n - 1) /\ last.fn = "scripted_trigger") =>
          LET r == ScriptedTriggerCall(sc, last.part, last.val, last.info.args, stack[n - 2])
          IN  last.diags = r.diags /\ last.ops = r.ops /\ last.info.neg = r.neg
    /\ (/\ n >= 3
        /\ NotFrame(n)
        /\ NotFrame(n - 1)
        /\ last.fn = "key_part"
        /\ last.first
        /\ last.nxt \in {"leaf", "walk"}
        /\ walk.fn # "key") =>
          LET o == KeyOutcome(sc, WithFlagsOf(stack[n], stack[n - 2]))
          IN  last.diags = o.diags /\ last.ops = o.ops /\ sc = o.sc
    /\ (/\ n >= 4
        /\ NotFrame(n - 1)
        /\ NotFrame(n - 2)
        /\ last.fn = "key_part"
        /\ last.first
        /\ last.nxt = "push") =>
          LET o == KeyOutcome(sc, WithFlagsOf(stack[n - 1], stack[n - 3]))
          IN  last.diags = o.diags /\ last.ops = o.ops /\ sc = o.sc

\* `exists = scope:x` inside not = { not = { ... } }: it is validated as
\* not negated, so it marks the scope as existing.
C6_Witness ==
    /\ Len(stack) = 3
    /\ NotFrame(2)
    /\ NotFrame(3)
    /\ last.fn = "key_part"
    /\ last.part = "exists"
    /\ last.val = "scope:x"
    /\ \E i \in 1..Len(last.ops) : last.ops[i].op = "exists_scope"

\* C7: a key every_X, ordered_X or random_X of a known iterator X gives
\* exactly one diagnostic, its value is not validated and the scope context
\* is left as it was (no expect, no open_scope); any_X with a block is
\* validated as an iterator.
C7_OnlyAnyIterates ==
    [][/\ (last'.fn = "iterator" /\ last'.part # "any") =>
             /\ Len(last'.diags) = 1
             /\ last'.diags[1].msg = "cannot use list in a trigger"
             /\ last'.diags[1].at = last'.part
             /\ last'.ops = <<>>
             /\ sc' = sc
             /\ stack' = stack
             /\ walk' = walk
       /\ (last'.fn = "iterator" /\ last'.part = "any" /\ last'.val = "block") =>
             /\ Len(stack') = Len(stack) + 1
             /\ Top(stack').via = "iterator"]_vars

\* `ordered_vassal = { ... }` was met.
C7_Witness ==
    /\ last.fn = "iterator"
    /\ last.part = "ordered"
    /\ Len(last.diags) = 1

\* C8: for any_X with a block the validator calls, in this order, expect on
\* the current scope, the pre-scan of the iterator's fields, open_scope, and
\* the validation of the block with in_list true and the caller's
\* tooltipped, negated and max_sev, and closes the scope when that returns;
\* for any_X with a value it calls expect and neither opens nor closes.
C8_AnyIteratorOrder ==
    [][/\ (last'.fn = "iterator" /\ last'.part = "any" /\ last'.val = "block") =>
             /\ OpNames(last'.ops) = <<"expect", "precheck_iterator_fields", "open_scope",
                                       "validate_trigger_internal">>
             /\ Len(stack') = Len(stack) + 1
             /\ Pop(stack') = stack
             /\ Top(stack').kind = "trigger"
             /\ Top(stack').in_list
             /\ Top(stack').close
             /\ Top(stack') = WithFlagsOf(Top(stack'), Top(stack))
             /\ Len(sc') = Len(sc) + 1
             /\ Top(sc').scopes = scope_iterator("vassal")[2]
             /\ Top(sc').mode = "scope"
             /\ Top(Pop(sc')).scopes = Top(sc).scopes \cap scope_iterator("vassal")[1]
             /\ Pop(Pop(sc')) = Pop(sc)
       /\ (last'.fn = "iterator" /\ last'.part = "any" /\ last'.val # "block") =>
             /\ OpNames(last'.ops) = <<"expect">>
             /\ Len(sc') = Len(sc)
             /\ Top(sc').scopes = Top(sc).scopes \cap scope_iterator("vassal")[1]
             /\ Pop(sc') = Pop(sc)
             /\ stack' = stack
       /\ (last'.fn = "return" /\ last'.info.via = "iterator") =>
             /\ OpNames(last'.ops) = <<"close">>
             /\ sc' = Pop(sc)]_vars

\* The body of `any_vassal = { ... }` has just been entered.
C8_Witness ==
    /\ stack # <<>>
    /\ Top(stack).via = "iterator"
    /\ last.fn = "iterator"
    /\ last.nxt = "push"

\* The calls that start a nested validation on the scope context.
NestedValidations ==
    {"validate_trigger_internal", "validate_script_value", "script_values.validate_call"}

\* C9: when a chain walker starts a nested validation (a trigger block, a
\* script value, the call of a scripted value named by a part), the builder
\* of the chain is no longer tentative.
C9_NoNestedValidationWhileTentative ==
    last.fn \in {"key_part", "switch_key_part", "target_part"} =>
       \A i \in 1..Len(last.ops) :
          last.ops[i].op \in NestedValidations => last.ops[i].mode # "tentative"

\* The expected scopes of the target of `last` do not meet the scopes it produces.
TargetMismatch == ~intersects(last.info.outscopes, last.info.final_scopes)

CountUseOfThis(q) == Cardinality({i \in 1..Len(q) : q[i].key = "UseOfThis"})

\* What validate_target_ok_this leaves when its loop ends with the part
\* `part` after the parts of the walk w, on the scope context s: the
\* diagnostics of that last iteration and of the final check, and the scope
\* context.
OkThisOutcome(s, w, part, islast) ==
    LET first == w.parts = <<>>
        r == TargetPart(IF first THEN sc_open_builder(s) ELSE s, part, first, islast,
                        Svi(part, islast))
    IN  IF r.exit THEN [diags |-> r.diags, sc |-> r.sc]
        ELSE [diags |-> r.diags \o TargetFinalCheck(r.sc, part, w.outscopes),
              sc |-> sc_close(r.sc)]

\* C11: validate_target gives the diagnostics and the scope context of
\* validate_target_ok_this on the same arguments, and after them exactly one
\* UseOfThis warning if and only if the target is the literal `this`;
\* validate_target_ok_this never gives UseOfThis; a Scope descriptor calls
\* validate_target and a ScopeOkThis descriptor validate_target_ok_this.
C11_TargetIsOkThisPlusWarning ==
    [][/\ (walk.fn = "target" /\ last'.fn = "target_part" /\ last'.nxt # "walk") =>
             LET ok == OkThisOutcome(sc, walk, last'.part, last'.islast)
                 isthis == walk.parts = <<>> /\ last'.part = "this"
             IN  /\ sc' = ok.sc
                 /\ last'.diags =
                       ok.diags
                           \o (IF walk.warn_this /\ isthis
                               THEN <<old_warn("UseOfThis", "target this makes no sense here",
                                               "this")>>
                               ELSE <<>>)
                           \o walk.tail
                 /\ CountUseOfThis(ok.diags \o walk.tail) = 0
                 /\ CountUseOfThis(last'.diags) = IF walk.warn_this /\ isthis THEN 1 ELSE 0
       /\ (last'.fn \in {"key_part", "switch_key_part"} /\ walk'.fn = "target"
              /\ last'.part \in TriggerNames) =>
             /\ scope_trigger(last'.part)[2].kind = "Scope" => walk'.warn_this
             /\ scope_trigger(last'.part)[2].kind = "ScopeOkThis" => ~walk'.warn_this]_vars

\* `is_vassal_of = this`: the target is resolved and the warning is given.
C11_Witness ==
    /\ last.fn = "target_part"
    /\ last.part = "this"
    /\ last.first
    /\ last.info.resolved
    /\ CountUseOfThis(last.diags) = 1

\* The calls of a sequence of calls that are expect or a replace.
ExpectReplace(ops) ==
    OpNames(SelectSeq(ops, LAMBDA o : o.op \in {"expect", "replace", "replace_root",
                                                 "replace_prev", "replace_this",
                                                 "replace_named_scope"}))

\* The parts that are not a trigger descriptor: prefixes, root/prev/this,
\* scope-to-scope transitions, scripted values and special values.
NonTriggerParts ==
    PrefixParts \cup {"root", "prev", "this"} \cup ScopeToScopeNames \cup ScriptValueNames
        \cup SpecialValueNames

\* C12: on a part that is not a terminal trigger, the key walker and the
\* target resolver, given the same part and the same scope context, make the
\* same expect and replace calls and leave the same scope context; also for
\* a name that is both a scope-to-scope transition and a scripted value.
C12_WalkersAgree ==
    [][(last'.fn = "key_part" /\ last'.part \in NonTriggerParts) =>
          LET s0 == IF last'.first THEN sc_open_builder(sc) ELSE sc
              svi == Svi(last'.part, last'.islast)
              k == KeyPart(s0, last'.part, last'.first, last'.islast, last'.cmp, svi)
              t == TargetPart(s0, last'.part, last'.first, last'.islast, svi)
          IN  /\ k.sc = t.sc
              /\ ExpectReplace(k.ops) = ExpectReplace(t.ops)]_vars

\* C12, for the names that are a transition and nothing else, a scripted
\* value and nothing else, a prefix or root/prev/this: there the two
\* walkers do agree.
C12_WalkersAgreeOnUnambiguousParts ==
    [][(/\ last'.fn = "key_part"
        /\ last'.part \in NonTriggerParts \ SpecialValueNames
        /\ ~(last'.part \in ScopeToScopeNames /\ last'.part \in ScriptValueNames)) =>
          LET s0 == IF last'.first THEN sc_open_builder(sc) ELSE sc
              k == KeyPart(s0, last'.part, last'.first, last'.islast, last'.cmp, {})
              t == TargetPart(s0, last'.part, last'.first, last'.islast, {})
          IN  /\ k.sc = t.sc
              /\ ExpectReplace(k.ops) = ExpectReplace(t.ops)]_vars

\* The chain walker that made the step recorded in `last`, if one did.
ByKeyWalker == last.fn \in {"key_part", "switch_key_part"}

ByTargetWalker == last.fn = "target_part"

\* The part of `last` was classified as a trigger descriptor by its walker.
PartIsTrigger ==
    \/ ByKeyWalker /\ last.part \in TriggerNames
    \/ ByTargetWalker /\ trigger_comparevalue(last.part) # {}

\* The part of `last` is root/prev/this, or a prefix, transition or trigger
\* that takes no input scope.
PartNeedsNoScope ==
    \/ last.part \in {"root", "prev", "this"}
    \/ /\ last.part \in PrefixParts
       /\ has_scope_prefix(part_prefix(last.part))
       /\ scope_prefix(part_prefix(last.part))[1] = NoneS
    \/ /\ last.part \in ScopeToScopeNames
       /\ ByTargetWalker \/ last.part \notin ScriptValueNames
       /\ scope_to_scope(last.part)[1] = NoneS
    \/ PartIsTrigger /\ last.islast /\ scope_trigger(last.part)[1] = NoneS

\* The warnings of `last` about the place of its part in the chain.
PlaceWarnings(msgs) ==
    {i \in 1..Len(last.diags) :
        /\ last.diags[i].msg \in msgs
        /\ last.diags[i].at = last.part
        /\ last.diags[i].sev = "Warning"}

\* C13: in a dotted chain, root/prev/this and a prefix, transition or
\* trigger that takes no input scope, met after the first part, give one
\* Validation warning and the resolution goes on; a trigger descriptor
\* before the last part gives one warning, the builder is closed and
\* nothing more of the field is validated; and after an event_id: part no
\* further part is processed.
C13_OrderingViolations ==
    (ByKeyWalker \/ ByTargetWalker) =>
       /\ (PartNeedsNoScope /\ ~last.first) =>
             /\ Cardinality(PlaceWarnings({"makes no sense except as first part",
                                           "makes no sense except as only part"})) = 1
             /\ \A i \in PlaceWarnings({"makes no sense except as first part",
                                        "makes no sense except as only part"}) :
                   last.diags[i].key = "Validation"
             /\ last.nxt = "walk" \/ last.info.resolved
       /\ (PartIsTrigger /\ ~last.islast) =>
             /\ Cardinality(PlaceWarnings({"should be the last part",
                                           "only makes sense as the last part"})) = 1
             /\ SeqToSet(OpNames(last.ops)) \subseteq {"open_builder", "close"}
             /\ OpNames(last.ops)[Len(last.ops)] = "close"
             /\ ~last.info.resolved
             /\ walk.fn = "idle"
             /\ ~BuilderOpen
       /\ part_prefix(last.part) = "event_id" =>
             /\ last.info.resolved
             /\ walk.fn \notin {"key", "target"} \/ walk.parts = <<>>

\* `liege.yes`: a transition that takes no scope, as the second part of a key.
C13_Witness ==
    /\ last.fn = "key_part"
    /\ ~last.first
    /\ last.part = "yes"
    /\ last.info.resolved
    /\ Cardinality(PlaceWarnings({"makes no sense except as first part"})) = 1

\* The part is none of the things the key walker knows: no prefix form, not
\* root/prev/this, no scripted value, no transition, no special value, no
\* trigger descriptor.  (A key that is a scripted trigger never reaches the
\* walker.)
UnknownKeyPart(part, islast) ==
    /\ part \notin PrefixParts \cup {"root", "prev", "this"} \cup ScriptValueNames
                      \cup ScopeToScopeNames \cup TriggerNames
    /\ Svi(part, islast) = {}

\* C14: an unknown part of a trigger key gives exactly one diagnostic, key
\* UnknownField, message "unknown token", at that part; the builder is
\* closed, so the scope context is what it was before the key; the value of
\* the field is not validated; no side effect is recorded; and the loop
\* over the fields of the block goes on.
C14_UnknownToken ==
    [][(last'.fn = "key_part" /\ UnknownKeyPart(last'.part, last'.islast)) =>
          /\ Len(last'.diags) = 1
          /\ last'.diags[1].key = "UnknownField"
          /\ last'.diags[1].msg = "unknown token"
          /\ last'.diags[1].at = last'.part
          /\ OpNames(last'.ops) = <<"close">>
          /\ sc' = IF last'.first THEN sc ELSE Pop(sc)
          /\ ~last'.side
          /\ stack' = stack
          /\ walk' = Idle
          /\ last'.nxt = "leaf"]_vars

\* `liege.wibble = ...`: the second part of the key is unknown, the builder
\* of the key is gone and the block goes on.
C14_Witness ==
    /\ last.fn = "key_part"
    /\ last.part = "wibble"
    /\ ~last.first
    /\ Len(sc) = Len(stack)
    /\ Len(last.diags) = 1
    /\ last.diags[1].key = "UnknownField"
    /\ walk.fn = "idle"
    /\ stack # <<>>

\* The descriptor the step recorded in lst was matched against, as a set:
\* empty when the step did not end in a descriptor.
DescriptorOf(lst) ==
    IF lst.fn = "fields_field" THEN {block_field_trigger(lst.part)}
    ELSE IF lst.fn = "key_part" /\ lst.islast /\ lst.part \in SpecialValueNames
    THEN {Trig("CompareValue", {})}
    ELSE IF lst.fn = "key_part" /\ lst.islast /\ lst.part \in TriggerNames
    THEN {scope_trigger(lst.part)[2]}
    ELSE {}

\* The descriptors that allow any comparator, and those that warn about `=`.
AnyComparatorKinds == {"CompareValue", "CompareValueWarnEq", "CompareDate"}

WarnIfEqKinds == {"CompareValueWarnEq"}

\* The numbers of "unexpected comparator" Validation warnings and of "means
\* exactly equal" Logic warnings in q.
CountUnexpected(q) ==
    Cardinality({i \in 1..Len(q) :
                    /\ q[i].key = "Validation"
                    /\ q[i].msg = "unexpected comparator"
                    /\ q[i].sev = "Warning"})

CountLogic(q) ==
    Cardinality({i \in 1..Len(q) :
                    /\ q[i].key = "Logic"
                    /\ q[i].msg = "means exactly equal to that amount"
                    /\ q[i].sev = "Warning"})

\* The comparator warnings of a descriptor are pushed at the end of
\* match_trigger_bv: by the step itself when it is a leaf, and else after
\* the target or the block of the field has been validated.
TailOf(lst, w, st) ==
    IF lst.nxt = "walk" THEN w.tail
    ELSE IF lst.nxt = "push" THEN Top(st).tail
    ELSE lst.diags

\* A delayed tail is pushed exactly once, when the target or block is done.
TailPushedOnce ==
    /\ (walk.fn = "target" /\ last'.fn = "target_part" /\ last'.nxt # "walk") =>
          /\ CountUnexpected(last'.diags) = CountUnexpected(walk.tail)
          /\ CountLogic(last'.diags) = CountLogic(walk.tail)
    /\ (walk.fn = "target" /\ last'.fn = "target_part" /\ last'.nxt = "walk") =>
          /\ CountUnexpected(last'.diags) = 0
          /\ CountLogic(last'.diags) = 0
          /\ walk'.tail = walk.tail
    /\ (last'.fn = "return" /\ stack # <<>>) =>
          /\ CountUnexpected(last'.diags) = CountUnexpected(Top(stack).tail)
          /\ CountLogic(last'.diags) = CountLogic(Top(stack).tail)

\* C15 (as amended): for a descriptor that requires an equals comparator,
\* match_trigger_bv gives exactly one "unexpected comparator" Validation
\* warning when the comparator is none of `=`, `?=`, `==`, and none when it
\* is one of them; for a warn-if-eq descriptor it gives exactly one Logic
\* warning with `=`, `?=` or `==` and none otherwise; a descriptor that
\* allows any comparator never gives "unexpected comparator"; the two
\* warnings are never given for the same field.
C15_ComparatorWarnings ==
    [][/\ \A d \in DescriptorOf(last') :
             LET t == TailOf(last', walk', stack')
                 eq == CmpIsEquals(last'.cmp)
             IN  /\ CountUnexpected(t) =
                       IF d.kind \notin AnyComparatorKinds /\ ~eq THEN 1 ELSE 0
                 /\ CountLogic(t) = IF d.kind \in WarnIfEqKinds /\ eq THEN 1 ELSE 0
                 /\ CountUnexpected(t) + CountLogic(t) <= 1
       /\ TailPushedOnce]_vars

\* `has_trait < 1`: an Item descriptor with an ordering comparator gives
\* the warning.
C15_Witness ==
    /\ last.fn = "key_part"
    /\ last.part = "has_trait"
    /\ last.cmp = "<"
    /\ last.nxt = "leaf"
    /\ CountUnexpected(last.diags) = 1

\* C15 (as written): a descriptor that requires `=` gives exactly one
\* "unexpected comparator" warning whenever the comparator is anything
\* other than `=`; a warn-if-eq descriptor with `=` gives exactly one Logic
\* warning; never both.
C15_AnythingButSingleEquals ==
    [][\A d \in DescriptorOf(last') :
          LET t == TailOf(last', walk', stack') IN
          /\ (d.kind \notin AnyComparatorKinds /\ last'.cmp # "=") => CountUnexpected(t) = 1
          /\ (d.kind \in WarnIfEqKinds /\ last'.cmp = "=") => CountLogic(t) = 1
          /\ CountUnexpected(t) + CountLogic(t) <= 1]_vars

\* The step recorded in lst ended a key that is a scope chain: the loop of
\* the key walker is over and no trigger descriptor was found.
EndsScopeChain(lst) ==
    lst.fn = "key_part" /\ lst.info.resolved /\ DescriptorOf(lst) = {}

\* The scope context the last iteration of the key walker leaves, the
\* builder still open, when it takes the part of lst on the context s.
ChainContext(s, lst) ==
    KeyPart(IF lst.first THEN sc_open_builder(s) ELSE s, lst.part, lst.first, lst.islast,
            lst.cmp, Svi(lst.part, lst.islast)).sc

\* The calls made after the loop of the key walker, in the step lst made on
\* the context s.
CallsAfterLoop(s, lst) ==
    LET n == Len(KeyPart(IF lst.first THEN sc_open_builder(s) ELSE s, lst.part, lst.first,
                         lst.islast, lst.cmp, Svi(lst.part, lst.islast)).ops)
    IN  OpNames(SubSeq(lst.ops, n + 1, Len(lst.ops)))

\* The right-hand side is validated as a target expected to be one of the
\* scopes `scopes`, by validate_target_ok_this.
ValidatedAsTarget(lst, w, calls, scopes) ==
    /\ calls = <<"close", "validate_target_ok_this">>
    /\ lst.val # "number" => /\ w.fn = "target"
                             /\ w.parts = <<>>
                             /\ w.outscopes = scopes
                             /\ ~w.warn_this

\* C16 (as amended): for a key that is a scope chain, with a comparator
\* other than `=` and `?=`, the builder is closed first, so that the
\* right-hand side is resolved in the scope context of before the key; if
\* the chain can be a Value the right-hand side is validated as a script
\* value, whatever the comparator; if it cannot, `!=` and `==` validate the
\* right-hand side as a target that must produce the final scope set of the
\* chain, and an ordering comparator gives exactly one "unexpected
\* comparator" warning and the right-hand side is not validated.
C16_ScopeComparison ==
    [][(EndsScopeChain(last') /\ last'.cmp \notin {"=", "?="}) =>
          LET chain == ChainContext(sc, last')
              calls == CallsAfterLoop(sc, last')
          IN  /\ sc' = IF last'.first THEN sc ELSE Pop(sc)
              /\ stack' = stack
              /\ IF sc_can_be(chain, ValueS)
                 THEN /\ calls = <<"close", "validate_script_value">>
                      /\ CountUnexpected(last'.diags) = 0
                      /\ walk' = Idle
                 ELSE IF last'.cmp \in {"!=", "=="}
                 THEN /\ CountUnexpected(last'.diags) = 0
                      /\ IF last'.val = "block"
                         THEN calls = <<"close">> /\ walk' = Idle
                         ELSE ValidatedAsTarget(last', walk', calls, sc_scopes(chain))
                 ELSE /\ CountUnexpected(last'.diags) = 1
                      /\ calls = <<"close">>
                      /\ walk' = Idle]_vars

\* `liege != <target>`: the right-hand side is to be resolved as a character.
C16_Witness ==
    /\ last.fn = "key_part"
    /\ last.part = "liege"
    /\ last.cmp = "!="
    /\ last.info.resolved
    /\ walk.fn = "target"
    /\ walk.outscopes = CharacterS
    /\ Len(sc) = Len(stack)

\* C16 (as written): `!=` and `==` after a scope chain always validate the
\* right-hand side as a target that must produce the chain's final scope
\* set; an ordering comparator on a chain that cannot be a Value gives one
\* "unexpected comparator" warning.
C16_AlwaysScopeEquality ==
    [][(EndsScopeChain(last') /\ last'.cmp \notin {"=", "?="}) =>
          LET chain == ChainContext(sc, last')
              calls == CallsAfterLoop(sc, last')
          IN  /\ (last'.cmp \in {"!=", "=="} /\ last'.val # "block") =>
                    ValidatedAsTarget(last', walk', calls, sc_scopes(chain))
              /\ (last'.cmp = "<" /\ ~sc_can_be(chain, ValueS)) =>
                    CountUnexpected(last'.diags) = 1 /\ calls = <<"close">>]_vars

\* The number of calls of sc.exists_scope in a sequence of calls.
CountExistsScope(ops) == Cardinality({i \in 1..Len(ops) : ops[i].op = "exists_scope"})

\* C17: `exists = scope:name` marks the named scope as existing, by one
\* call of exists_scope, only when it is validated non-negated; validated
\* under negation it makes no call that changes the scope context, leaves
\* the scope context as it was and gives no diagnostic.
C17_ExistsOnlyWhenNotNegated ==
    [][(/\ last'.fn \in {"key_part", "switch_key_part"}
        /\ last'.part = "exists"
        /\ last'.first
        /\ last'.cmp = "="
        /\ last'.val = "scope:x") =>
          /\ CountExistsScope(last'.ops) = IF Top(stack).negated THEN 0 ELSE 1
          /\ SeqToSet(OpNames(last'.ops)) \subseteq {"expect", "close", "exists_scope"}
          /\ sc' = sc
          /\ last'.diags = <<>>
          /\ walk' = Idle]_vars

\* not = { exists = scope:x }: validated under negation, nothing is marked.
C17_Witness ==
    /\ last.fn = "key_part"
    /\ last.part = "exists"
    /\ last.val = "scope:x"
    /\ last.cmp = "="
    /\ Top(stack).negated
    /\ CountExistsScope(last.ops) = 0
    /\ last.diags = <<>>

\* The side-effect bit of a frame is never reset: a frame that stays on the
\* stack keeps a bit that is set.
SideNeverReset ==
    \A i \in 1..Len(stack) : (i <= Len(stack') /\ stack[i].side) => stack'[i].side

\* A step other than a return that had a side effect (it saved a scope,
\* added to a list, met an UncheckedValue trigger) sets the bit of the block
\* it is in; the steps in `fns` are the ones held to this.
SideRecorded(fns) ==
    (last'.fn \in fns /\ last'.side) => stack'[Len(stack)].side

\* A block that returns with its bit set sets the bit of the block that
\* holds it; the entry point returns the bit of its block.
SideReturned ==
    (last'.fn = "return" /\ stack # <<>>) =>
       /\ last'.side = Top(stack).side
       /\ (Top(stack).side /\ stack' # <<>>) => Top(stack').side

\* C18: validate_trigger returns true whenever, anywhere in what it
\* validated for the block, a scope was saved, a list was added to or an
\* UncheckedValue trigger was met: every step with a side effect sets the
\* bit of its block, also when it is the condition of a `switch`; every
\* block hands its bit to the block that holds it; and the bit is never
\* reset.
C18_SideEffectsReachTheCaller ==
    [][/\ SideRecorded({"key_part", "switch_key_part", "fields_field", "plain"})
       /\ SideReturned
       /\ SideNeverReset]_vars

\* C18 without the conditions of `switch`: there the bit does reach the
\* caller.
C18_SideEffectsOutsideSwitchConditions ==
    [][/\ SideRecorded({"key_part", "fields_field", "plain"})
       /\ SideReturned
       /\ SideNeverReset]_vars
(***************************************************************************)
(* C19: the tooltip warning and the parity of the enclosing negations.     *)
(***************************************************************************)
NegatingKeywords == {"not", "nor", "nand", "all_false"}

\* The step just taken matched a control keyword with a block as its value.
ControlBlockStep ==
    /\ last.fn = "key_part"
    /\ last.first
    /\ last.islast
    /\ last.part \in ControlNames
    /\ last.val \in {"block", "empty"}
    /\ last.nxt = (IF last.val = "block" THEN "push" ELSE "leaf")

\* The frames that enclose the control block of the step just taken: its own
\* frame, when one was pushed, is not among them.
EnclosingFrames == IF last.nxt = "push" THEN Len(stack) - 1 ELSE Len(stack)

\* The number of negating keywords whose blocks enclose the control block.
EnclosingNegations ==
    Cardinality({i \in 1..EnclosingFrames :
                    stack[i].via = "control" /\ stack[i].caller \in NegatingKeywords})

\* The nearest enclosing block validated by a call of validate_trigger or of
\* validate_trigger_max_sev: trigger.rs 42-81 start with negated = false.
SinceValidateTrigger ==
    LET starts == {i \in 1..EnclosingFrames :
                      stack[i].via \in {"entry", "switch_branch", "wcti_branch",
                                        "limit", "filter", "trigger"}}
    IN  CHOOSE i \in starts : \A j \in starts : j <= i

CountTooltip(diags) ==
    Cardinality({i \in 1..Len(diags) : diags[i].key = "Tooltip"})

\* The parity table of the warning.
WarningParity(name, n) ==
    CASE name \in {"or", "nand"} -> n % 2 = 0
      [] name \in {"and", "nor", "all_false"} -> n % 2 = 1
      [] OTHER -> FALSE

\* C19: a control block gets the Tooltip warning exactly when tooltipped is
\* FailuresOnly and, with n the number of enclosing negating keywords, the
\* block is an `or` or a `nand` and n is even, or an `and`, a `nor` or an
\* `all_false` and n is odd.
C19_TooltipWarningParity ==
    ControlBlockStep =>
       CountTooltip(last.diags) =
          (IF stack[EnclosingFrames].tooltipped = "FailuresOnly"
                /\ WarningParity(last.part, EnclosingNegations)
           THEN 1 ELSE 0)

\* The same with n counted from the nearest call of validate_trigger, which
\* starts again with negated = false: the body of the entry point, and a
\* branch of `switch` or of `weighted_calc_true_if`.
C19_ParitySinceValidateTrigger ==
    ControlBlockStep =>
       CountTooltip(last.diags) =
          (IF stack[EnclosingFrames].tooltipped = "FailuresOnly"
                /\ WarningParity(last.part,
                      Cardinality({i \in SinceValidateTrigger..EnclosingFrames :
                                      stack[i].via = "control"
                                      /\ stack[i].caller \in NegatingKeywords}))
           THEN 1 ELSE 0)

\* or = { } in a branch of a `switch` that is in the block of a `not`.
C19_OrInSwitchUnderNot ==
    /\ ControlBlockStep
    /\ last.part = "or"
    /\ Len(stack) = 4
    /\ NotFrame(2)
    /\ stack[4].via = "switch_branch"
    /\ stack[4].tooltipped = "FailuresOnly"
    /\ CountTooltip(last.diags) = 1

(***************************************************************************)
(* C20: tooltipped = No is forced by some blocks and kept by all the       *)
(* blocks nested in them.                                                  *)
(***************************************************************************)
\* The frame i is the body of a custom_tooltip or of a custom_description,
\* or a limit, a filter or the `trigger` of a modifier.
ForcesNoTooltip(i) ==
    \/ stack[i].via \in {"custom_tooltip", "limit", "filter", "trigger"}
    \/ stack[i].via = "control" /\ stack[i].caller = "custom_description"

\* C20: the body of custom_tooltip and of custom_description, and the limit,
\* filter and modifier-`trigger` blocks, are validated with tooltipped = No,
\* and every block nested in a block validated with tooltipped = No (control
\* block, iterator, scope-chain block, Block descriptor, `switch` and
\* `weighted_calc_true_if` and their branches) is validated with No too.
C20_NoTooltipIsKept ==
    /\ \A i \in 1..Len(stack) : ForcesNoTooltip(i) => stack[i].tooltipped = "No"
    /\ \A i \in 2..Len(stack) :
          stack[i - 1].tooltipped = "No" => stack[i].tooltipped = "No"
    /\ (ControlBlockStep /\ stack[EnclosingFrames].tooltipped = "No") =>
          CountTooltip(last.diags) = 0

\* A branch of a `switch` in a block that forces No, under an entry point
\* that was called with FailuresOnly.
C20_Witness ==
    /\ Len(stack) = 4
    /\ stack[1].tooltipped = "FailuresOnly"
    /\ ForcesNoTooltip(2)
    /\ stack[3].kind = "switch"
    /\ stack[4].via = "switch_branch"
    /\ stack[4].tooltipped = "No"

(***************************************************************************)
(* C26: a scripted trigger without parameters called with a plain value.   *)
(***************************************************************************)
\* The step just taken called a scripted trigger that takes no parameters
\* with one of the four accepted values.
PlainScriptedCall ==
    /\ last.fn = "scripted_trigger"
    /\ macro_parms(last.part) = <<>>
    /\ last.val \in {"yes", "no", "YES", "NO"}

\* C26: the body of a scripted trigger without parameters is validated again
\* in the current scope context, without the "expected yes or no" warning,
\* with the caller's negation flipped when the value is `no` or `NO` and
\* unchanged when it is `yes` or `YES`.
C26_NegationFlipOnNo ==
    PlainScriptedCall =>
       /\ last.diags = <<>>
       /\ last.ops = <<Op("trigger.validate_call", sc)>>
       /\ last.info.neg = (IF last.val \in {"no", "NO"}
                           THEN ~Top(stack).negated ELSE Top(stack).negated)

\* The same with the flip made for the lower-case `no` only.
C26_NegationFlipOnLowerCaseNo ==
    PlainScriptedCall =>
       /\ last.diags = <<>>
       /\ last.ops = <<Op("trigger.validate_call", sc)>>
       /\ last.info.neg = (IF last.val = "no"
                           THEN ~Top(stack).negated ELSE Top(stack).negated)

(***************************************************************************)
(* C21: the diagnostics of Characters::verify_exists_gender.               *)
(***************************************************************************)
\* The step just taken asked the catalog for a character of a gender.
AskedGender == ch_last.op = "verify_exists_gender"

\* The gender a definition has by its `female` field alone.
DefinedAs(ch) == IF ch.block.female = "yes" THEN "Female" ELSE "Male"

\* C21: verify_exists_gender(item, gender) emits one diagnostic or none:
\* MissingItem, an Error with the message "character not defined in
\* history/characters/", at the item when no character has the key;
\* WrongGender with "character is not <gender>" at the item when the
\* character is defined with the other gender, a character without
\* `female = yes` being male; nothing when the gender is the expected one.
C21_VerifyExistsGender ==
    AskedGender =>
       LET item == ch_last.key
           g == ch_last.visited[1]
           r == ch_last.reports
       IN  /\ Len(r) <= 1
           /\ item.s \notin DOMAIN characters =>
                 /\ Len(r) = 1
                 /\ r[1].key = "MissingItem"
                 /\ r[1].sev = "Error"
                 /\ r[1].msg = "character not defined in history/characters/"
                 /\ r[1].at = item
           /\ (item.s \in DOMAIN characters /\ DefinedAs(characters[item.s]) # g) =>
                 /\ Len(r) = 1
                 /\ r[1].key = "WrongGender"
                 /\ r[1].msg = (IF g = "Male" THEN "character is not male"
                                ELSE "character is not female")
                 /\ r[1].at = item
           /\ (item.s \in DOMAIN characters /\ DefinedAs(characters[item.s]) = g) =>
                 r = <<>>

\* A defined character without a `female` field was asked for as a woman,
\* and the one diagnostic is WrongGender.
C21_Witness ==
    /\ AskedGender
    /\ ch_last.key.s \in DOMAIN characters
    /\ characters[ch_last.key.s].block.female = ""
    /\ ch_last.visited = <<"Female">>
    /\ Len(ch_last.reports) = 1
    /\ ch_last.reports[1].key = "WrongGender"

(***************************************************************************)
(* C23: duplicates and overlays in Characters::load_item.                  *)
(***************************************************************************)
\* The step loads a definition into the catalog.
LoadItemStep == ch_last'.op = "load_item" /\ ch_last' # ch_last

\* The one duplicate diagnostic of a step that loads key over other.
IsDupOf(reports, key, other) ==
    /\ Len(reports) = 1
    /\ reports[1].key = "DuplicateItem"
    /\ reports[1].at = key
    /\ reports[1].other = other

\* The new key comes from a strictly higher overlay than the old one.
StrictlyHigher(key, other) ==
    \E i, j \in 1..Len(FileKinds) :
       /\ FileKinds[i] = key.loc.kind
       /\ FileKinds[j] = other.loc.kind
       /\ i > j

Validated == ch_last.op = "validate"

\* The keys of the characters of the catalog that pass the only_born filter.
PassingKeys ==
    {characters[k].key : k \in DOMAIN characters} \ 
    {characters[k].key : k \in {c \in DOMAIN characters :
        config_only_born.some /\ characters[c].block.birth > config_only_born.date}}

\* C24: validate validates the characters in ascending order of their
\* defining key location, whatever order the hash map gives them in and
\* whatever order they were loaded in, each character that passes the
\* only_born filter exactly once; so every run over one catalog emits the
\* same diagnostics in the same order.
C24_ValidateDeterministic ==
    Validated =>
       LET v == ch_last.visited IN
       /\ {v[i] : i \in DOMAIN v} = PassingKeys
       /\ Len(v) = Cardinality(PassingKeys)
       /\ \A i, j \in DOMAIN v : i < j =>
             \/ KindRank(v[i].loc.kind) < KindRank(v[j].loc.kind)
             \/ v[i].loc.kind = v[j].loc.kind /\ v[i].loc.line < v[j].loc.line
       /\ \A vec \in HashOrders(characters) :
          \A sorted \in SortedOrders(characters, vec) :
             LET r == ValidateAll(characters, config_only_born, sorted) IN
             r.visited = v /\ r.reports = ch_last.reports

\* Two characters were validated, the hash map having given them in the
\* other order, and the second one's diagnostic comes after the first one's.
C24_Witness ==
    /\ Validated
    /\ Len(ch_last.visited) = 2
    /\ ch_last.hash # <<ch_last.visited[1].s, ch_last.visited[2].s>>
    /\ Len(ch_last.reports) = 2
    /\ ch_last.reports[1].at.loc = ch_last.visited[1].loc
    /\ ch_last.reports[2].at.loc = ch_last.visited[2].loc

(***************************************************************************)
(* C22: an event block is loaded or recorded in error_events.              *)
(***************************************************************************)
\* The step reads an item of the file.
ItemStep == ev_last'.op = "item" /\ ev_last' # ev_last

\* The item read by the step is a keyed block read as an event: no scripted
\* trigger or effect is pending, and the key is not `namespace`.
EventBlockStep ==
    /\ ItemStep
    /\ ev_last'.it.k # NoKey
    /\ ev_last'.it.k # NamespaceKey
    /\ ev_last'.it.is_block
    /\ expecting = "Event"

\* The EventNamespace diagnostics among reports.
EventNamespaceReports(reports) ==
    SelectSeq(reports, LAMBDA r : r.key = "EventNamespace")

\* key starts with the text s.
HasPrefix(key, s) == Len(s) <= Len(key) /\ SubSeq(key, 1, Len(s)) = s

\* C22: in an event file with a declared namespace, an event block whose key
\* does not start with the namespace produces exactly one EventNamespace
\* diagnostic at the key, "Event name should start with namespace", is not
\* passed to load_event, and has its key recorded in error_events; and every
\* event block is either loaded, or recorded in error_events with one
\* EventNamespace diagnostic, never both and never neither.
C22_LoadedOrRecorded ==
    [][EventBlockStep =>
          LET key == ev_last'.it.k
              ens == EventNamespaceReports(ev_last'.reports)
              loaded == ev_last'.calls = <<"load_event">>
          IN  /\ (namespace.some /\ ~HasPrefix(key, namespace.s)) =>
                    /\ Len(ens) = 1
                    /\ ens[1].msg = "Event name should start with namespace"
                    /\ ens[1].at = key
                    /\ ev_last'.calls = <<>>
                    /\ key \in error_events'
              /\ loaded =>
                    /\ ens = <<>>
                    /\ error_events' = error_events
              /\ ~loaded =>
                    /\ ev_last'.calls = <<>>
                    /\ Len(ens) = 1
                    /\ ens[1].at = key
                    /\ error_events' = error_events \cup {key}]_vars

\* With the namespace `f` declared, the block `b.1 = { }` was read as an
\* event: one EventNamespace diagnostic, no load, and the key is recorded.
C22_Witness ==
    /\ ev_last.op = "item"
    /\ ev_last.exp = "Event"
    /\ ev_last.ns = SomeNamespace(<<"f">>)
    /\ ev_last.it.is_block
    /\ ev_last.it.k = <<"b", ".", "1">>
    /\ Len(EventNamespaceReports(ev_last.reports)) = 1
    /\ ev_last.calls = <<>>
    /\ ev_last.it.k \in error_events

(***************************************************************************)
(* C27: bare tokens and the pending expectation of an event file.          *)
(***************************************************************************)
\* The Validation errors among reports.
ValidationErrors(reports) ==
    SelectSeq(reports, LAMBDA r : r.key = "Validation" /\ r.sev = "Error")

\* What a bare `scripted_trigger` or `scripted_effect` token makes pending.
PendingFor(t) == IF t = ScriptedTriggerToken THEN "ScriptedTrigger" ELSE "ScriptedEffect"

\* The call that loads a keyed block while exp is pending.
LoadFor(exp) ==
    IF exp = "ScriptedTrigger" THEN "load_scripted_trigger" ELSE "load_scripted_effect"

\* C27: a bare scripted_trigger (or scripted_effect) token seen while an
\* event is expected makes exactly the next keyed block be loaded as a
\* scripted trigger (effect) with no namespace check, after which keyed
\* blocks are events again; such a token seen while one is pending, any other
\* bare token and any bare block each produce one Validation error and leave
\* the expectation unchanged, as do `namespace = ...` and the other keyed
\* value fields.
C27_PendingExpectation ==
    [][ItemStep =>
          LET it == ev_last'.it
              bare == it.k = NoKey
              marker == bare /\ ~it.is_block
                           /\ it.v \in {ScriptedTriggerToken, ScriptedEffectToken}
          IN  /\ (marker /\ expecting = "Event") =>
                    /\ expecting' = PendingFor(it.v)
                    /\ ev_last'.reports = <<>>
                    /\ ev_last'.calls = <<>>
              /\ (~bare /\ it.is_block /\ it.k # NamespaceKey /\ expecting # "Event") =>
                    /\ ev_last'.calls = <<LoadFor(expecting)>>
                    /\ EventNamespaceReports(ev_last'.reports) = <<>>
                    /\ error_events' = error_events
                    /\ expecting' = "Event"
              /\ (bare /\ ~(marker /\ expecting = "Event")) =>
                    /\ Len(ev_last'.reports) = 1
                    /\ Len(ValidationErrors(ev_last'.reports)) = 1
                    /\ ev_last'.calls = <<>>
                    /\ expecting' = expecting
              /\ (~bare /\ (it.k = NamespaceKey \/ ~it.is_block)) =>
                    /\ ev_last'.calls = <<>>
                    /\ expecting' = expecting]_vars

\* After a bare `scripted_trigger` and, while it was pending, a keyed value
\* field, the block `b.1 = { }` was loaded as a scripted trigger under the
\* namespace `f`, without a diagnostic.
C27_Witness ==
    /\ ev_last.op = "item"
    /\ ev_last.exp = "ScriptedTrigger"
    /\ ev_last.ns = SomeNamespace(<<"f">>)
    /\ ev_last.it.is_block
    /\ ev_last.it.k = <<"b", ".", "1">>
    /\ ev_last.calls = <<"load_scripted_trigger">>
    /\ ev_last.reports = <<>>
    /\ expecting = "Event"

(***************************************************************************)
(* C28: which event blocks are passed to load_event.                       *)
(***************************************************************************)
\* key is s, a dot, and n ASCII digits.
IsNamespaceDotDigits(key, s, n) ==
    /\ Len(key) = Len(s) + 1 + n
    /\ SubSeq(key, 1, Len(s)) = s
    /\ key[Len(s) + 1] = "."
    /\ \A i \in (Len(s) + 2)..Len(key) :
          key[i] \in {"0", "1", "2", "3", "4", "5", "6", "7", "8", "9"}

\* The least number of digits for which the step loads its event block.
LoadsFromDigits(least) ==
    LET key == ev_last'.it.k
        loaded == ev_last'.calls = <<"load_event">>
    IN  /\ loaded <=> /\ namespace.some
                      /\ \E n \in least..Len(key) :
                            IsNamespaceDotDigits(key, namespace.s, n)
        /\ ~namespace.some =>
              /\ ~loaded
              /\ \E i \in DOMAIN ev_last'.reports :
                    ev_last'.reports[i].msg =
                       "Event files must start with a namespace declaration"

\* C28: an event block is passed to load_event if and only if a namespace was
\* declared earlier in the file and the block's key has the form
\* NAMESPACE.NUMBER, NAMESPACE being the most recently declared namespace and
\* NUMBER a series of one or more ASCII digits; an event block before any
\* namespace declaration yields the error "Event files must start with a
\* namespace declaration" and is not loaded.
C28_LoadedIffNamespaceDotNumber == [][EventBlockStep => LoadsFromDigits(1)]_vars

\* The same with a NUMBER of no digit at all allowed.
C28_LoadedIffNamespaceDotDigits == [][EventBlockStep => LoadsFromDigits(0)]_vars

(***************************************************************************)
(* C25: what DdsFiles::load_dds records.                                   *)
(***************************************************************************)
\* The step gives a .dds file to handle_file.
DdsLoadStep ==
    /\ dds_last'.op = "handle_file"
    /\ dds_last' # dds_last
    /\ dds_last'.args[1].ext = "dds"

\* The little-endian 32-bit word of bytes at offset o.
WordAt(bytes, o) ==
    (bytes[o] + 256 * bytes[o + 1] + 256 * 256 * bytes[o + 2]
        + 256 * 256 * 256 * bytes[o + 3]) % Word

\* What the step does with a file of which the first size bytes are needed.
LoadsFromHeaderOf(size) ==
    LET e == dds_last'.args[1]
        f == dds_last'.args[2]
        r == dds_last'.reports
        readable == f.openable /\ Cardinality(DOMAIN f.bytes) >= size
        magic == <<f.bytes[0], f.bytes[1], f.bytes[2], f.bytes[3]>> = <<68, 68, 83, 32>>
    IN  IF ~readable
        THEN /\ Len(r) = 1
             /\ r[1].key = "ReadError"
             /\ dds_files' = dds_files
        ELSE IF ~magic
        THEN /\ Len(r) = 1
             /\ r[1].key = "ImageFormat"
             /\ dds_files' = dds_files
        ELSE /\ r = <<>>
             /\ DOMAIN dds_files' = DOMAIN dds_files \cup {e.path}
             /\ dds_files'[e.path] = [height |-> WordAt(f.bytes, 12),
                                      width |-> WordAt(f.bytes, 16)]
             /\ \A p \in DOMAIN dds_files \ {e.path} : dds_files'[p] = dds_files[p]

\* C25: load_dds records a texture's dimensions only when the first 128
\* bytes of the file can be read and begin with the magic `DDS `, the height
\* being the little-endian word at offset 12 and the width the one at offset
\* 16; a file without the magic yields one ImageFormat diagnostic, a file
\* that is too short or unreadable one ReadError diagnostic, and in both
\* cases nothing is recorded for the path.
C25_RecordsFromFirst128Bytes == [][DdsLoadStep => LoadsFromHeaderOf(128)]_vars

\* The same with the first 124 bytes.
C25_RecordsFromFirst124Bytes == [][DdsLoadStep => LoadsFromHeaderOf(124)]_vars

(***************************************************************************)
(* C29: the warnings of DdsFiles::validate_frame.                          *)
(***************************************************************************)
\* The step just taken asked for a frame of a texture.
ValidatedFrame == dds_last.op = "validate_frame"

\* What the claim says of a call that has returned with reports r.
FrameOutcomeAsStated ==
    LET key == dds_last.key
        width == dds_last.args[1]
        height == dds_last.args[2]
        frame == dds_last.args[3]
        r == dds_last.reports
        info == dds_files[key]
    IN  /\ ~dds_last.panic
        /\ Len(r) <= 1
        /\ \A i \in DOMAIN r : r[i].key = "ImageFormat" /\ r[i].sev = "Warning"
        /\ r = <<>> <=>
              \/ key \notin DOMAIN dds_files
              \/ /\ info.height = height
                 /\ width # 0
                 /\ info.width % width = 0
                 /\ 1 <= frame
                 /\ frame * width <= info.width
        /\ r # <<>> =>
              r[1].msg = IF info.height # height
                         THEN "texture does not match frame height"
                         ELSE IF width = 0 \/ info.width % width # 0
                         THEN "texture is not a multiple of frame width"
                         ELSE "texture is not large enough for frame index"

\* C29: validate_frame emits at most one ImageFormat warning per call,
\* checking the height first, then the frame width, then the frame index; it
\* emits none exactly when the texture key is unknown, or the heights are
\* equal, the frame width is not zero and divides the texture width, and
\* 1 <= frame and frame * width <= texture width as a mathematical product,
\* for all unsigned values of width, height and frame, overflow not changing
\* the outcome.
C29_FrameWarnings == ValidatedFrame => FrameOutcomeAsStated

\* The same for the calls with 1 <= frame whose product fits a u32.
C29_FrameWarningsWhenProductFits ==
    (ValidatedFrame /\ 1 <= dds_last.args[3]
        /\ dds_last.args[3] * dds_last.args[1] < Word) => FrameOutcomeAsStated

\* The same for the calls with 1 <= frame.
C29_FrameWarningsFromFrameOne ==
    (ValidatedFrame /\ 1 <= dds_last.args[3]) => FrameOutcomeAsStated

(***************************************************************************)
(* C30: validate_datatypes, position by position.                          *)
(***************************************************************************)
\* A call of validate_datatypes has been made on a chain.
ChainValidated == dt # DtIdle

\* The entries of the tables that can be used for the code named name at
\* position i of n after the type cur.
UsableEntries(name, i, n, cur) ==
    IF i = 1 /\ n = 1
    THEN {e \in GLOBAL_FUNCTIONS : e.name = name /\ name \notin GameConcepts}
    ELSE IF i = 1
    THEN {e \in GLOBAL_PROMOTES : e.name = name}
    ELSE IF i < n
    THEN {e \in PROMOTES : e.name = name /\ (cur = "Unknown" \/ e.intype = cur)}
    ELSE {e \in FUNCTIONS : e.name = name /\ (cur = "Unknown" \/ e.intype = cur)}

\* name is in one of the four tables, the game concepts not being taken as
\* global functions.
InSomeTable(name) ==
    \/ \E e \in GLOBAL_FUNCTIONS : e.name = name /\ name \notin GameConcepts
    \/ \E e \in GLOBAL_PROMOTES \cup PROMOTES \cup FUNCTIONS : e.name = name

\* The reports made for the code at position i of the chain itself.
ReportsAt(i) == SelectSeq(dt.result.reports, LAMBDA r : r.at.place = <<i>>)

\* C30: validate_datatypes checks a chain position by position, the return
\* type of each code being the current type of the next: a sole code must be
\* a global function (game concepts excluded), the first of several a global
\* promote, a middle code a promote valid for the current type, the last a
\* function valid for the current type.  The first code that is in some table
\* but not usable at its position or after the current type yields exactly
\* one DataFunctions error and ends the validation of the chain; a name in no
\* table is accepted with the type Unknown and no argument expected; a wrong
\* number of arguments is reported without ending the chain.
C30_PositionByPosition ==
    ChainValidated =>
       LET codes == dt.chain
           res == dt.result
           n == Len(codes)
           passed == Len(res.types)
           cur(i) == IF i = 1 THEN "Unknown" ELSE res.types[i - 1]
           usable(i) == UsableEntries(codes[i].name, i, n, cur(i))
           expected(i) == IF usable(i) = {} THEN <<>>
                          ELSE (CHOOSE e \in usable(i) : TRUE).args
       IN  /\ passed <= n
           /\ \A i \in 1..passed :
                 /\ \/ \E e \in usable(i) : res.types[i] = e.rtype
                    \/ ~InSomeTable(codes[i].name) /\ res.types[i] = "Unknown"
                 /\ Len(expected(i)) # Len(codes[i].arguments) =>
                       \E k \in DOMAIN ReportsAt(i) :
                          /\ ReportsAt(i)[k].key = "DataFunctions"
                          /\ ReportsAt(i)[k].msg = "takes another number of arguments"
           /\ passed < n =>
                 /\ InSomeTable(codes[passed + 1].name)
                 /\ usable(passed + 1) = {}
                 /\ res.returned = passed + 1
                 /\ Len(ReportsAt(passed + 1)) = 1
                 /\ ReportsAt(passed + 1)[1].key = "DataFunctions"
                 /\ ReportsAt(passed + 1)[1].sev = "Error"
                 /\ \A k \in DOMAIN res.reports : res.reports[k].at.place[1] <= passed + 1

\* In a chain of three codes the first was given no argument where one is
\* needed, which was reported, and the second, which is in a table, could not
\* follow the type of the first: one more error, and the third was not
\* checked.
C30_Witness ==
    /\ ChainValidated
    /\ Len(dt.chain) = 3
    /\ Len(dt.result.types) = 1
    /\ dt.result.returned = 2
    /\ Len(ReportsAt(1)) = 1
    /\ ReportsAt(1)[1].msg = "takes another number of arguments"
    /\ Len(ReportsAt(2)) = 1
    /\ Len(dt.result.reports) = 2

====
